---- MODULE Spec2Model ----
(***************************************************************************)
(* A model of the monologue Certificate Transparency monitor: the STH      *)
(* getter and its per-STH checks, the certificate submitter and its        *)
(* per-SCT checks, and the roots analyzer's change-detection loop.         *)
(*                                                                         *)
(* Instants and durations are integers counting nanoseconds since the      *)
(* epoch, as in Go's time package.  TLC's integers are 32 bits wide, so    *)
(* the 64-bit words of the Go code are scaled down to WordBits bits; the   *)
(* arithmetic on them wraps exactly as the Go arithmetic does.             *)
(***************************************************************************)
EXTENDS Integers, Sequences, FiniteSets, Bags, TLC

\* ------------------------------------------------------------------------
\* Bounds of the model
\* ------------------------------------------------------------------------

\* Width, in bits, of the scaled-down stand-in for Go's uint64 / int64.
WordBits == 29

\* Largest "ordinary" STH / SCT timestamp, in milliseconds since the epoch.
MaxTsMs == 2

\* Largest Maximum Merge Delay of the monitored Log, in milliseconds.
MaxMMDMs == 1

\* Number of iterations a periodic task may start in one behaviour.
MaxIter == 2

\* Number of distinct root certificates.
NumCerts == 2

\* Number of values the roots analyzer may receive from the watch channel.
MaxObs == 4

\* Longest list of certificates handed to GenerateSetID or diffRootSets.
MaxLen == 3

\* ------------------------------------------------------------------------
\* Time
\* ------------------------------------------------------------------------

\* time.Millisecond, in nanoseconds.
Millisecond == 1000000

Uint64Mod == 2 ^ WordBits

Int64Top == 2 ^ (WordBits - 1)

\* The Go conversion int64(x) of an unsigned word x: two's complement.
ToInt64(x) == IF x >= Int64Top THEN x - Uint64Mod ELSE x

\* The instant time.Unix(0, int64(ts*uint64(time.Millisecond))) for a
\* timestamp ts in milliseconds: the multiplication is on unsigned words and
\* wraps, and the conversion to int64 reinterprets the top bit as the sign.
MsToInstant(ts) == ToInt64((ts * Millisecond) % Uint64Mod)

\* The smallest millisecond timestamps whose conversion wraps: into the sign
\* bit, and past the unsigned word.
TsSignWrap == (Int64Top \div Millisecond) + 1

TsWordWrap == (Uint64Mod \div Millisecond) + 1

Timestamps == (0 .. MaxTsMs) \cup {TsSignWrap, TsWordWrap}

MMDs == {m * Millisecond : m \in 0 .. MaxMMDMs}

\* Instants at which a response may have been received: around every
\* "timestamp + MMD" boundary of an ordinary timestamp, one nanosecond either
\* side of it included.
ReceiveTimes ==
    {(t * Millisecond) + m + d : t \in 0 .. MaxTsMs, m \in MMDs, d \in {-1, 0, 1}}

\* ------------------------------------------------------------------------
\* The monitored Log (ctlog.Log)
\* ------------------------------------------------------------------------

Keys == {"logKey", "otherKey"}

LogIDs == {"logID", "otherLogID"}

\* The Log's ID is derived from its public key.
TheLog(m) ==
    [URL |-> "https://ct.example/log/", Name |-> "log",
     PublicKey |-> "logKey", LogID |-> "logID", MMD |-> m]

\* An absent value: a nil pointer, a nil error.
Nil == [isNil |-> TRUE]

Range(s) == {s[i] : i \in DOMAIN s}

\* ------------------------------------------------------------------------
\* Signed tree heads
\* ------------------------------------------------------------------------

TreeSizes == {0, 1}

\* The TreeHeadSignature names the key that made it and the fields it was
\* made over (version, timestamp, tree size, root hash).
STHSignature(key, ts, size, hash) ==
    [key |-> key, Version |-> "V1", Timestamp |-> ts, TreeSize |-> size,
     SHA256RootHash |-> hash]

\* The STHs a Log may answer with: signed by the Log over exactly these
\* fields, or with one of the fields or the key differing from what was
\* signed.
STHs ==
    {[Version |-> "V1", TreeSize |-> size, Timestamp |-> ts,
      SHA256RootHash |-> "h",
      TreeHeadSignature |-> STHSignature(key, ts, signedSize, "h")] :
        size \in TreeSizes, signedSize \in TreeSizes, ts \in Timestamps,
        key \in Keys}

\* sv.VerifySTHSignature(sth): nil iff the signature was made by the
\* verifier's key over the STH's own fields.
VerifySTHSignature(key, sth) ==
    sth.TreeHeadSignature =
        STHSignature(key, sth.Timestamp, sth.TreeSize, sth.SHA256RootHash)

\* A checkSTHTimestamp that also rejects an STH exactly one MMD old.
checkSTHTimestamp_NotAfter(sth, receivedAt, mmdur) ==
    MsToInstant(sth.Timestamp) <= receivedAt + (0 - mmdur)

\* checkSTHTimestamp: an error iff the STH's instant is before
\* receivedAt.Add(-mmd).
checkSTHTimestamp(sth, receivedAt, mmdur) ==
    MsToInstant(sth.Timestamp) < receivedAt + (0 - mmdur)

\* A checkSTH that stops at the first error it finds.
checkSTH_ShortCircuit(sth, receivedAt, key, l) ==
    IF ~VerifySTHSignature(key, sth)
        THEN <<"SignatureVerificationError">>
        ELSE IF checkSTHTimestamp(sth, receivedAt, l.MMD)
                THEN <<"OldTimestampError">> ELSE <<>>

\* checkSTH: the list of errors found, by type name.
checkSTH(sth, receivedAt, key, l) ==
    (IF ~VerifySTHSignature(key, sth)
        THEN <<"SignatureVerificationError">> ELSE <<>>)
    \o (IF checkSTHTimestamp(sth, receivedAt, l.MMD)
        THEN <<"OldTimestampError">> ELSE <<>>)

\* ------------------------------------------------------------------------
\* Signed certificate timestamps
\* ------------------------------------------------------------------------

\* The chains the CA may issue, named by their leaf certificate.
Chains == {[leaf |-> "leafA"], [leaf |-> "leafB"]}

Versions == {"V1", "V2"}

\* sct.Extensions: a nil slice, an empty slice, or a slice holding data.
ExtensionValues == {"nil", "empty", "data"}

\* The bytes of an extensions slice; a nil and an empty slice have none.
ExtBytes(ext) == IF ext = "data" THEN <<"d", "a", "t", "a">> ELSE <<>>

SCTTimestamps == 0 .. MaxTsMs

\* The SCT signature names the key that made it and the data it was made
\* over: version, timestamp, extensions and the submitted leaf.  The Log ID
\* is not part of the signed data.
SCTSignature(key, version, ts, extBytes, leaf) ==
    [key |-> key, SCTVersion |-> version, Timestamp |-> ts,
     Extensions |-> extBytes, leaf |-> leaf]

\* The signatures a Log may put on an SCT for timestamp ts: its own, over
\* any version, extensions and leaf, or another key's.
SCTSignatures(ts) ==
    {SCTSignature("logKey", sv, ts, ExtBytes(sext), c.leaf) :
        sv \in Versions, sext \in {"empty", "data"}, c \in Chains}
    \cup {SCTSignature("otherKey", "V1", ts, <<>>, c.leaf) : c \in Chains}

\* The SCTs a Log may return.
SCTs ==
    UNION {{[SCTVersion |-> v, LogID |-> id, Timestamp |-> ts,
             Extensions |-> ext, Signature |-> sig] :
                v \in Versions, id \in LogIDs, ext \in ExtensionValues,
                sig \in SCTSignatures(ts)} : ts \in SCTTimestamps}

\* Instants at which an add-chain response carrying timestamp ts may have
\* been received: a nanosecond before the instant of ts, at it, a nanosecond
\* after it and a millisecond after it.
SCTReceiveTimes(ts) ==
    {MsToInstant(ts) + d : d \in {-1, 0, 1, Millisecond}}

\* ctutil.VerifySCTWithVerifier(sv, chain, sct, false): nil iff the signature
\* was made by the verifier's key over the SCT's version, timestamp and
\* extensions and the leaf of the chain.
VerifySCTWithVerifier(key, chain, sct) ==
    sct.Signature =
        SCTSignature(key, sct.SCTVersion, sct.Timestamp,
                     ExtBytes(sct.Extensions), chain.leaf)

\* A checkSCT that stops at the first error it finds.
checkSCT_ShortCircuit(sct, chain, key, l) ==
    IF sct.SCTVersion # "V1" THEN <<"SCTVersionError">>
    ELSE IF sct.LogID # l.LogID THEN <<"SCTLogIDError">>
    ELSE IF sct.Extensions # "nil" /\ ExtBytes(sct.Extensions) # <<>>
        THEN <<"SCTExtensionsError">>
    ELSE IF ~VerifySCTWithVerifier(key, chain, sct)
        THEN <<"SignatureVerificationError">>
    ELSE <<>>

\* A checkSCT that treats a wrong Log ID as invalidating the signature.
checkSCT_LogIDSigned(sct, chain, key, l) ==
    (IF sct.SCTVersion # "V1" THEN <<"SCTVersionError">> ELSE <<>>)
    \o (IF sct.LogID # l.LogID THEN <<"SCTLogIDError">> ELSE <<>>)
    \o (IF sct.Extensions # "nil" /\ ExtBytes(sct.Extensions) # <<>>
           THEN <<"SCTExtensionsError">> ELSE <<>>)
    \o (IF ~VerifySCTWithVerifier(key, chain, sct) \/ sct.LogID # l.LogID
           THEN <<"SignatureVerificationError">> ELSE <<>>)

\* checkSCT: the list of errors found, by type name, for a non-nil SCT.
checkSCT(sct, chain, key, l) ==
    (IF sct.SCTVersion # "V1" THEN <<"SCTVersionError">> ELSE <<>>)
    \o (IF sct.LogID # l.LogID THEN <<"SCTLogIDError">> ELSE <<>>)
    \o (IF sct.Extensions # "nil" /\ ExtBytes(sct.Extensions) # <<>>
           THEN <<"SCTExtensionsError">> ELSE <<>>)
    \o (IF ~VerifySCTWithVerifier(key, chain, sct)
           THEN <<"SignatureVerificationError">> ELSE <<>>)

\* A future-timestamp check that also rejects an SCT timestamped exactly at
\* receivedAt.
checkSCTTimestamp_NotBefore(sct, receivedAt) ==
    IF MsToInstant(sct.Timestamp) >= receivedAt
        THEN <<"SCTFromFutureError">> ELSE <<>>

\* The fifth check of checkSCT: the SCT's timestamp, as an instant, must not
\* be after the time the SCT was received.
checkSCTTimestamp(sct, receivedAt) ==
    IF MsToInstant(sct.Timestamp) > receivedAt
        THEN <<"SCTFromFutureError">> ELSE <<>>

\* checkSCT with the time of receipt: the four checks above, then the
\* timestamp check.
checkSCTAt(sct, chain, key, l, receivedAt) ==
    checkSCT(sct, chain, key, l) \o checkSCTTimestamp(sct, receivedAt)

\* ------------------------------------------------------------------------
\* Root certificates and root sets
\* ------------------------------------------------------------------------

\* A certificate is its raw DER, here a number ordered as the bytes are, and
\* the subject parsed from it, here the rank of the subject string among the
\* subject strings.  Certificate 1 has the greatest subject, so the order by
\* subject is not the order by raw bytes, and for three or more certificates
\* some share a subject.
Cert(i) == [Subject |-> (NumCerts + 1 - i) \div 2, Raw |-> i]

Certs == {Cert(i) : i \in 1 .. NumCerts}

\* The RootSetIDs a storage may send on the watch channel.  The empty
\* RootSetID "" is the zero value, which is what a closed channel yields.
RootSetIDs == {"id1", "id2"}

\* The orders in which the elements of a set may be returned or iterated.
SeqsOf(S) == {s \in [1 .. Cardinality(S) -> S] : Range(s) = S}

\* The loop of diffRootSets over new: a certificate found in oldSet (a map
\* keyed by raw DER) is deleted from it, any other is appended to added.
RECURSIVE diffNew(_, _, _)
diffNew(new, oldSet, added) ==
    IF new = <<>>
        THEN [added |-> added, removed |-> oldSet]
        ELSE LET cert == Head(new)
             IN  IF \E c \in oldSet : c.Raw = cert.Raw
                    THEN diffNew(Tail(new),
                                 {c \in oldSet : c.Raw # cert.Raw}, added)
                    ELSE diffNew(Tail(new), oldSet, Append(added, cert))

\* A diffRootSets that takes its arguments the other way round.
diffRootSets_Swapped(old, new) == diffNew(old, Range(new), <<>>)

\* diffRootSets(old, new): added, in the order of new, and the certificates
\* left in the map, which the code then appends to removed in map order.
diffRootSets(old, new) == diffNew(new, Range(old), <<>>)

\* The less function of sortCerts: by subject, then by raw DER.
certLess(a, b) ==
    IF a.Subject # b.Subject THEN a.Subject < b.Subject ELSE a.Raw < b.Raw

\* c inserted at its place in the sorted sequence s.
insertCert(c, s) ==
    LET k == Cardinality({i \in DOMAIN s : certLess(s[i], c)})
    IN  SubSeq(s, 1, k) \o <<c>> \o SubSeq(s, k + 1, Len(s))

\* sortCerts(certs): certs sorted by certLess.
RECURSIVE sortCerts(_)
sortCerts(certs) ==
    IF certs = <<>> THEN <<>>
    ELSE insertCert(Head(certs), sortCerts(Tail(certs)))

\* A reportChange that writes the certificates in the order it is given them.
reportChange_Unsorted(l, addedCerts, removedCerts) ==
    [BaseURL |-> l.URL, Summary |-> "Root certificates changed",
     Category |-> "roots", FullURL |-> "https://ct.example/log/ct/v1/get-roots",
     AddedCerts |-> addedCerts,
     RemovedCerts |-> removedCerts]

\* The incident reportChange hands to rep.LogUpdate: the certificates are
\* sorted before the details are written from them.
reportChange(l, addedCerts, removedCerts) ==
    [BaseURL |-> l.URL, Summary |-> "Root certificates changed",
     Category |-> "roots", FullURL |-> "https://ct.example/log/ct/v1/get-roots",
     AddedCerts |-> sortCerts(addedCerts),
     RemovedCerts |-> sortCerts(removedCerts)]

\* The condition under which Run reads back and reports: an ID is remembered
\* and the received one differs from it.
raChanged_NoFirstCheck(last, id) == last # id

raChanged(last, id) == last # "" /\ last # id

\* The ID Run remembers after handling a received ID.
raNextLast_KeepFirst(last, id) == IF last = "" THEN id ELSE last

raNextLast(last, id) == id

\* ------------------------------------------------------------------------
\* Root set identifiers (GenerateCertID, GenerateSetID)
\* ------------------------------------------------------------------------

\* The lists of certificate pointers a caller may pass: any certificates, in
\* any order, repeated or not, and nil pointers.
CertLists == UNION {[1 .. n -> Certs \cup {Nil}] : n \in 0 .. MaxLen}

\* sha256.Sum256 of a certificate's raw DER.  Digests are numbers ordered as
\* their bytes are; distinct raw DER has distinct digests, and the order of
\* the digests is not the order of the raw DER.
Sum256Raw(raw) == NumCerts + 1 - raw

\* sha256.Sum256 of a concatenation of digests: distinct concatenations have
\* distinct digests.
Sum256Concat(concat) == [sha256 |-> concat]

\* A GenerateCertID that gives nil the digest of no bytes instead of an error.
GenerateCertID_NilAccepted(root) ==
    [err |-> FALSE, id |-> IF root = Nil THEN 0 ELSE Sum256Raw(root.Raw)]

\* GenerateCertID(root): the digest of root.Raw, or an error for nil.
GenerateCertID(root) ==
    IF root = Nil
        THEN [err |-> TRUE, id |-> 0]
        ELSE [err |-> FALSE, id |-> Sum256Raw(root.Raw)]

\* The loop of GenerateSetID over roots: the ID of each root not seen yet is
\* appended to dedupRootIDs; a nil root ends the loop with an error.
RECURSIVE dedupRootIDs(_, _, _)
dedupRootIDs(roots, rootIDSet, acc) ==
    IF roots = <<>>
        THEN [err |-> FALSE, ids |-> acc]
        ELSE LET certID == GenerateCertID(Head(roots))
             IN  IF certID.err
                    THEN [err |-> TRUE, ids |-> <<>>]
                    ELSE IF certID.id \in rootIDSet
                            THEN dedupRootIDs(Tail(roots), rootIDSet, acc)
                            ELSE dedupRootIDs(Tail(roots),
                                              rootIDSet \cup {certID.id},
                                              Append(acc, certID.id))

\* id inserted at its place in the sorted sequence s.
insertID(id, s) ==
    LET k == Cardinality({i \in DOMAIN s : s[i] < id})
    IN  SubSeq(s, 1, k) \o <<id>> \o SubSeq(s, k + 1, Len(s))

\* sort.Strings(ids).
RECURSIVE sortStrings(_)
sortStrings(ids) ==
    IF ids = <<>> THEN <<>>
    ELSE insertID(Head(ids), sortStrings(Tail(ids)))

\* A GenerateSetID that hashes the IDs in the order the roots came in.
GenerateSetID_NoSort(roots) ==
    LET dedup == dedupRootIDs(roots, {}, <<>>)
    IN  IF dedup.err
            THEN [err |-> TRUE, setID |-> Nil]
            ELSE [err |-> FALSE, setID |-> Sum256Concat(dedup.ids)]

\* A GenerateSetID that hashes only the smallest of the IDs.
GenerateSetID_FirstOnly(roots) ==
    LET dedup == dedupRootIDs(roots, {}, <<>>)
    IN  IF dedup.err
            THEN [err |-> TRUE, setID |-> Nil]
            ELSE [err |-> FALSE,
                  setID |-> Sum256Concat(
                      IF dedup.ids = <<>> THEN <<>>
                      ELSE <<Head(sortStrings(dedup.ids))>>)]

\* GenerateSetID(roots): the digest of the sorted, deduplicated certificate
\* IDs joined together, or an error if a root is nil.
GenerateSetID(roots) ==
    LET dedup == dedupRootIDs(roots, {}, <<>>)
    IN  IF dedup.err
            THEN [err |-> TRUE, setID |-> Nil]
            ELSE [err |-> FALSE,
                  setID |-> Sum256Concat(sortStrings(dedup.ids))]

\* ------------------------------------------------------------------------
\* Transport errors of the LogClient
\* ------------------------------------------------------------------------

GetErrors ==
    {"GetError", "NilResponseError", "BodyReadError", "HTTPStatusError",
     "JSONParseError", "ResponseToStructError"}

PostErrors ==
    {"PostError", "NilResponseError", "BodyReadError", "HTTPStatusError",
     "JSONParseError", "ResponseToStructError"}

Err(type) == [isNil |-> FALSE, type |-> type]

\* ------------------------------------------------------------------------
\* State
\* ------------------------------------------------------------------------

VARIABLES
    ctxDone,        \* the context passed to the tasks has been cancelled
    procAlive,      \* the process is running (no panic, no exit)
    mmd,            \* the MMD of the monitored Log
    sgPc,           \* STH getter: "wait", "fetching", "stopped", or "off"
    sgTick,         \* STH getter: a tick is waiting in the ticker's channel
    sgIter,         \* STH getter: iterations started
    sgSTH,          \* STH getter: the STH of this iteration's fetch, or Nil
    sgGetErr,       \* STH getter: the error of this iteration's fetch, or Nil
    sgReceivedAt,   \* STH getter: apiCall.End of this iteration's fetch
    sgErrs,         \* STH getter: the errors checkSTH returned, if it was called
    sgAPICalls,     \* STH getter: number of API calls handed to the writer
    sgTrace,        \* STH getter: the steps of the current iteration
    csPc,           \* submitter: "start", "wait", "posting", "stopped",
                    \*   "panicked", or "off"
    csTicker,       \* submitter: schedule.Every has started its ticker
    csTick,         \* submitter: a tick is waiting in the ticker's channel
    csIter,         \* submitter: iterations started
    csChain,        \* submitter: the chain issued in this iteration, or Nil
    csSCT,          \* submitter: the SCT of this iteration, or Nil
    csAddErr,       \* submitter: the error of this iteration's AddChain, or Nil
    csReceivedAt,   \* submitter: apiCall.End of this iteration's AddChain
    csErrs,         \* submitter: the errors checkSCT returned, if it returned
    csAPICalls,     \* submitter: number of API calls handed to the writer
    csTrace,        \* submitter: the steps of the current iteration
    rootSetCerts,   \* storage: the certificates of each RootSetID
    raPc,           \* analyzer: "start", "loop", "returned", or "off"
    raClosed,       \* analyzer: the watch channel has been closed
    raLast,         \* analyzer: lastRootSetID
    raObserved,     \* analyzer: the values received from the channel so far
    raReads,        \* analyzer: the ReadRoots calls made so far
    raReports,      \* analyzer: the incidents handed to the reporter so far
    raLogged,       \* analyzer: number of errors logged
    raFailure,      \* analyzer: the call that failed, or "none"
    rsPc,           \* root sets: "input", "ids", "diffed", "panicked" or "off"
    rsOld,          \* root sets: one list of certificates
    rsNew,          \* root sets: another list of certificates
    rsOldID,        \* root sets: what GenerateSetID returned for rsOld
    rsNewID,        \* root sets: what GenerateSetID returned for rsNew
    rsDiff,         \* root sets: what diffRootSets(rsOld, rsNew) returned
    rgPc,           \* roots getter: "start", "wait", "fetching", "stopped",
                    \*   or "off"
    rgTicker,       \* roots getter: schedule.Every has started its ticker
    rgTick,         \* roots getter: a tick is waiting in the ticker's channel
    rgIter,         \* roots getter: iterations started
    rgGetErr,       \* roots getter: the error of this iteration's fetch, or Nil
    rgRoots,        \* roots getter: what this iteration gave WriteRoots, or Nil
    rgAPICalls,     \* roots getter: number of API calls handed to the writer
    rgStored,       \* roots getter: number of WriteRoots calls
    rgTrace,        \* roots getter: the steps of the current iteration
    ivPc,           \* interval: "input", "done", "panicked" or "off"
    ivInterval,     \* interval: the receiver of RandomSecond, or Nil
    ivResult,       \* interval: what RandomSecond returned
    lcPc,           \* LogClient: "idle", "returned" or "off"
    lcMethod,       \* LogClient: the method that returned
    lcValue,        \* LogClient: the method returned an STH, roots or an SCT
    lcHTTPData,     \* LogClient: the HTTPData the method returned, or Nil
    lcErr,          \* LogClient: the error the method returned, or Nil
    wrPc,           \* root store: "ready" or "off"
    wrDB,           \* root store: the rows of each table of the database
    wrWritten,      \* root store: the observations of the successful calls
    wrCalls,        \* root store: number of WriteRoots calls
    wrFailed,       \* root store: number of WriteRoots calls that failed
    coPc,           \* collector: "check", "startSTHGetter",
                    \*   "startRootsGetter", "wait", "returned" or "off"
    coCfg,          \* collector: the Config given to Run, or Nil
    coErr,          \* collector: the error Run returned, or Nil
    coTask,         \* collector: "notStarted", "running" or "returned",
                    \*   for each task
    coWg            \* collector: the counter of the WaitGroup

sgVars ==
    <<sgPc, sgTick, sgIter, sgSTH, sgGetErr, sgReceivedAt, sgErrs, sgAPICalls,
      sgTrace>>

csVars ==
    <<csPc, csTicker, csTick, csIter, csChain, csSCT, csAddErr, csReceivedAt,
      csErrs, csAPICalls, csTrace>>

raVars ==
    <<rootSetCerts, raPc, raClosed, raLast, raObserved, raReads, raReports,
      raLogged, raFailure>>

rsVars == <<rsPc, rsOld, rsNew, rsOldID, rsNewID, rsDiff>>

rgVars ==
    <<rgPc, rgTicker, rgTick, rgIter, rgGetErr, rgRoots, rgAPICalls, rgStored,
      rgTrace>>

ivVars == <<ivPc, ivInterval, ivResult>>

\* The state of the components that run outside the monitoring tasks.
lcVars == <<lcPc, lcMethod, lcValue, lcHTTPData, lcErr>>

wrVars == <<wrPc, wrDB, wrWritten, wrCalls, wrFailed>>

coVars == <<coPc, coCfg, coErr, coTask, coWg>>

extVars == <<ivVars, lcVars, wrVars, coVars>>

vars ==
    <<ctxDone, procAlive, mmd, sgVars, csVars, raVars, rsVars, rgVars, extVars>>

\* The state of the monitoring tasks and of the root-set operations.
coreVars == <<ctxDone, procAlive, mmd, sgVars, csVars, raVars, rsVars, rgVars>>

\* The context is cancelled.
Cancel ==
    /\ procAlive
    /\ ~ctxDone
    /\ ctxDone' = TRUE
    /\ UNCHANGED
           <<procAlive, mmd, sgVars, csVars, raVars, rsVars, rgVars, extVars>>

\* ------------------------------------------------------------------------
\* The STH getter (sthgetter.Run)
\* ------------------------------------------------------------------------

sgInit(pc) ==
    /\ sgPc = pc
    /\ sgTick = FALSE
    /\ sgIter = 0
    /\ sgSTH = Nil
    /\ sgGetErr = Nil
    /\ sgReceivedAt = 0
    /\ sgErrs = <<>>
    /\ sgAPICalls = 0
    /\ sgTrace = <<>>

\* What the STH getter leaves alone.
sgOthers ==
    <<ctxDone, procAlive, mmd, csVars, raVars, rsVars, rgVars, extVars>>

\* The ticker started by Run puts a tick in its channel (capacity one; a
\* tick that finds the channel full is dropped).  A select that is blocked
\* when the context is cancelled takes case <-ctx.Done(), so a tick that
\* comes after that is not received.
sgTickerFires ==
    /\ procAlive
    /\ sgPc \in {"wait", "fetching"}
    /\ ~sgTick
    /\ ~(sgPc = "wait" /\ ctxDone)
    /\ sgIter < MaxIter
    /\ sgTick' = TRUE
    /\ UNCHANGED <<sgPc, sgIter, sgSTH, sgGetErr, sgReceivedAt, sgErrs,
                   sgAPICalls, sgTrace>>
    /\ UNCHANGED sgOthers

\* A loop that serves a tick while the previous call of getCheckStoreSTH is
\* still running, as "go getCheckStoreSTH(...)" would.
sgSelectTick_Concurrent ==
    /\ procAlive
    /\ sgPc \in {"wait", "fetching"}
    /\ sgTick
    /\ sgTick' = FALSE
    /\ sgPc' = "fetching"
    /\ sgIter' = sgIter + 1
    /\ sgSTH' = Nil
    /\ sgGetErr' = Nil
    /\ sgReceivedAt' = 0
    /\ sgErrs' = <<>>
    /\ sgTrace' = <<>>
    /\ UNCHANGED sgAPICalls
    /\ UNCHANGED sgOthers

\* select case <-t.C: getCheckStoreSTH is called and sends its request.
sgSelectTick ==
    /\ procAlive
    /\ sgPc = "wait"
    /\ sgTick
    /\ sgTick' = FALSE
    /\ sgPc' = "fetching"
    /\ sgIter' = sgIter + 1
    /\ sgSTH' = Nil
    /\ sgGetErr' = Nil
    /\ sgReceivedAt' = 0
    /\ sgErrs' = <<>>
    /\ sgTrace' = <<>>
    /\ UNCHANGED sgAPICalls
    /\ UNCHANGED sgOthers

\* A loop that looks at the context only when it has received a tick.
sgSelectDone_OnTick ==
    /\ procAlive
    /\ sgPc = "wait"
    /\ ctxDone
    /\ sgTick
    /\ sgPc' = "stopped"
    /\ UNCHANGED <<sgTick, sgIter, sgSTH, sgGetErr, sgReceivedAt, sgErrs,
                   sgAPICalls, sgTrace>>
    /\ UNCHANGED sgOthers

\* select case <-ctx.Done(): Run returns.
sgSelectDone ==
    /\ procAlive
    /\ sgPc = "wait"
    /\ ctxDone
    /\ sgPc' = "stopped"
    /\ UNCHANGED <<sgTick, sgIter, sgSTH, sgGetErr, sgReceivedAt, sgErrs,
                   sgAPICalls, sgTrace>>
    /\ UNCHANGED sgOthers

\* The steps of an iteration up to the writing of the API call: the request
\* returns; with logsFetchErr, its error is logged; the API call is handed to
\* the writer, and the writer's own error, if any, is logged.
FetchAndRecord(fetchErr, logsFetchErr, writeErr) ==
    <<"fetch">>
    \o (IF logsFetchErr /\ fetchErr # Nil THEN <<"logFetchError">> ELSE <<>>)
    \o <<"record">>
    \o (IF writeErr THEN <<"logRecordError">> ELSE <<>>)

\* The verification step and the logging of what it found.
VerifyAndLog(errs) ==
    <<"verify">> \o (IF errs # <<>> THEN <<"logVerifyErrors">> ELSE <<>>)

\* A getCheckStoreSTH that writes the API call only for a fetched STH.
getCheckStoreSTH_RecordOnSuccess(sth, getErr, receivedAt, writeErr) ==
    /\ procAlive
    /\ sgPc = "fetching"
    /\ sgSTH' = sth
    /\ sgGetErr' = getErr
    /\ sgReceivedAt' = receivedAt
    /\ IF sth = Nil
          THEN /\ sgErrs' = <<>>
               /\ sgAPICalls' = sgAPICalls
               /\ sgTrace' = <<"fetch", "logFetchError">>
          ELSE LET errs == checkSTH(sth, receivedAt, "logKey", TheLog(mmd))
               IN  /\ sgErrs' = errs
                   /\ sgAPICalls' = sgAPICalls + 1
                   /\ sgTrace' = FetchAndRecord(getErr, TRUE, writeErr)
                                     \o VerifyAndLog(errs)
    /\ sgPc' = "wait"
    /\ UNCHANGED <<sgTick, sgIter>>
    /\ UNCHANGED sgOthers

\* A getCheckStoreSTH that checks the STH before it writes the API call.
getCheckStoreSTH_VerifyFirst(sth, getErr, receivedAt, writeErr) ==
    /\ procAlive
    /\ sgPc = "fetching"
    /\ sgSTH' = sth
    /\ sgGetErr' = getErr
    /\ sgReceivedAt' = receivedAt
    /\ sgAPICalls' = sgAPICalls + 1
    /\ IF sth = Nil
          THEN /\ sgErrs' = <<>>
               /\ sgTrace' = FetchAndRecord(getErr, TRUE, writeErr)
          ELSE LET errs == checkSTH(sth, receivedAt, "logKey", TheLog(mmd))
               IN  /\ sgErrs' = errs
                   /\ sgTrace' = <<"fetch">> \o VerifyAndLog(errs)
                                     \o <<"record">>
    /\ sgPc' = "wait"
    /\ UNCHANGED <<sgTick, sgIter>>
    /\ UNCHANGED sgOthers

\* The rest of getCheckStoreSTH, from the return of lc.GetSTH(): the error of
\* the request, if any, is logged; the API call is written (the writer's own
\* error is only logged); and the STH, if there is one, is checked and the
\* errors found are logged.
getCheckStoreSTH(sth, getErr, receivedAt, writeErr) ==
    /\ procAlive
    /\ sgPc = "fetching"
    /\ sgSTH' = sth
    /\ sgGetErr' = getErr
    /\ sgReceivedAt' = receivedAt
    /\ sgAPICalls' = sgAPICalls + 1
    /\ IF sth = Nil
          THEN /\ sgErrs' = <<>>
               /\ sgTrace' = FetchAndRecord(getErr, TRUE, writeErr)
          ELSE LET errs == checkSTH(sth, receivedAt, "logKey", TheLog(mmd))
               IN  /\ sgErrs' = errs
                   /\ sgTrace' = FetchAndRecord(getErr, TRUE, writeErr)
                                     \o VerifyAndLog(errs)
    /\ sgPc' = "wait"
    /\ UNCHANGED <<sgTick, sgIter>>
    /\ UNCHANGED sgOthers

\* lc.GetSTH() returns an STH and no error; the API call is written.
sgGetSTHReturns ==
    /\ sgPc = "fetching"
    /\ \E sth \in STHs, receivedAt \in ReceiveTimes :
           getCheckStoreSTH(sth, Nil, receivedAt, FALSE)

\* lc.GetSTH() returns an error and no STH; the API call is written.
sgGetSTHFails ==
    /\ sgPc = "fetching"
    /\ \E e \in GetErrors, receivedAt \in ReceiveTimes :
           getCheckStoreSTH(Nil, Err(e), receivedAt, FALSE)

\* lc.GetSTH() returns, with an STH timestamped 0 or with an error, and
\* st.WriteAPICall returns an error.
sgWriteAPICallFails ==
    /\ sgPc = "fetching"
    /\ \/ \E sth \in {s \in STHs : s.Timestamp = 0},
             receivedAt \in {0, Millisecond} :
              getCheckStoreSTH(sth, Nil, receivedAt, TRUE)
       \/ \E e \in GetErrors : getCheckStoreSTH(Nil, Err(e), 0, TRUE)

\* ------------------------------------------------------------------------
\* The certificate submitter (certsubmitter.Run, on schedule.Every)
\* ------------------------------------------------------------------------

csInit(pc) ==
    /\ csPc = pc
    /\ csTicker = FALSE
    /\ csTick = FALSE
    /\ csIter = 0
    /\ csChain = Nil
    /\ csSCT = Nil
    /\ csAddErr = Nil
    /\ csReceivedAt = 0
    /\ csErrs = <<>>
    /\ csAPICalls = 0
    /\ csTrace = <<>>

\* What the submitter leaves alone.
csOthers == <<ctxDone, mmd, sgVars, raVars, rsVars, rgVars, extVars>>

\* f is called: a chain is issued and posted to the Log; if issuing it
\* fails (chain = Nil), f returns at once.  When f returns, Every starts its
\* ticker, if it has not yet, and waits.
csCallF(chain) ==
    /\ csIter' = csIter + 1
    /\ csChain' = chain
    /\ csSCT' = Nil
    /\ csAddErr' = Nil
    /\ csReceivedAt' = 0
    /\ csErrs' = <<>>
    /\ IF chain = Nil
          THEN /\ csPc' = "wait"
               /\ csTicker' = TRUE
               /\ csTrace' = <<"issueFailed">>
          ELSE /\ csPc' = "posting"
               /\ csTicker' = csTicker
               /\ csTrace' = <<>>
    /\ UNCHANGED <<csAPICalls, procAlive>>
    /\ UNCHANGED csOthers

\* schedule.Every finds the context already cancelled and returns.
csEveryCancelled ==
    /\ procAlive
    /\ csPc = "start"
    /\ ctxDone
    /\ csPc' = "stopped"
    /\ UNCHANGED <<csTicker, csTick, csIter, csChain, csSCT, csAddErr,
                   csReceivedAt, csErrs, csAPICalls, csTrace, procAlive>>
    /\ UNCHANGED csOthers

\* An Every that starts its ticker without calling f first.
csEveryFirstCall_TickerOnly ==
    /\ procAlive
    /\ csPc = "start"
    /\ ~ctxDone
    /\ csPc' = "wait"
    /\ csTicker' = TRUE
    /\ UNCHANGED <<csTick, csIter, csChain, csSCT, csAddErr, csReceivedAt,
                   csErrs, csAPICalls, csTrace, procAlive>>
    /\ UNCHANGED csOthers

\* schedule.Every makes its first call of f, before starting the ticker.
csEveryFirstCall ==
    /\ procAlive
    /\ csPc = "start"
    /\ ~ctxDone
    /\ csIter < MaxIter
    /\ UNCHANGED csTick
    /\ \E chain \in Chains \cup {Nil} : csCallF(chain)

\* The ticker of schedule.Every puts a tick in its channel, unless the select
\* was blocked when the context was cancelled and has taken ctx.Done().
csTickerFires ==
    /\ procAlive
    /\ csTicker
    /\ csPc \in {"wait", "posting"}
    /\ ~csTick
    /\ ~(csPc = "wait" /\ ctxDone)
    /\ csIter < MaxIter
    /\ csTick' = TRUE
    /\ UNCHANGED <<csPc, csTicker, csIter, csChain, csSCT, csAddErr,
                   csReceivedAt, csErrs, csAPICalls, csTrace, procAlive>>
    /\ UNCHANGED csOthers

\* select case <-t.C: f is called.
csSelectTick ==
    /\ procAlive
    /\ csPc = "wait"
    /\ csTick
    /\ csTick' = FALSE
    /\ \E chain \in Chains \cup {Nil} : csCallF(chain)

\* select case <-ctx.Done(): Every, and then Run, return.
csSelectDone ==
    /\ procAlive
    /\ csPc = "wait"
    /\ ctxDone
    /\ csPc' = "stopped"
    /\ UNCHANGED <<csTicker, csTick, csIter, csChain, csSCT, csAddErr,
                   csReceivedAt, csErrs, csAPICalls, csTrace, procAlive>>
    /\ UNCHANGED csOthers

\* The rest of f, from the return of lc.AddChain(chain): the API call is
\* written (the writer's own error is only logged; the error of AddChain is
\* not logged), then checkSCT is called with the SCT, nil or not.  checkSCT
\* dereferences the SCT at once, so a nil SCT panics.
csAfterAddChain(sct, addErr, receivedAt, writeErr) ==
    /\ procAlive
    /\ csPc = "posting"
    /\ csSCT' = sct
    /\ csAddErr' = addErr
    /\ csReceivedAt' = receivedAt
    /\ csAPICalls' = csAPICalls + 1
    /\ IF sct = Nil
          THEN /\ csErrs' = <<>>
               /\ csTrace' = FetchAndRecord(addErr, FALSE, writeErr)
                                 \o <<"verifyNil", "panic">>
               /\ csPc' = "panicked"
               /\ csTicker' = csTicker
               /\ procAlive' = FALSE
          ELSE /\ csErrs' = checkSCTAt(sct, csChain, "logKey", TheLog(mmd),
                                       receivedAt)
               /\ csTrace' = FetchAndRecord(addErr, FALSE, writeErr)
                                 \o VerifyAndLog(csErrs')
               /\ csPc' = "wait"
               /\ csTicker' = TRUE
               /\ procAlive' = procAlive
    /\ UNCHANGED <<csTick, csIter, csChain>>
    /\ UNCHANGED csOthers

\* lc.AddChain(chain) returns an SCT and no error; the API call is written.
csAddChainReturns ==
    /\ csPc = "posting"
    /\ \E sct \in SCTs :
           \E receivedAt \in SCTReceiveTimes(sct.Timestamp) :
               csAfterAddChain(sct, Nil, receivedAt, FALSE)

\* lc.AddChain(chain) returns an error and no SCT; the API call is written.
csAddChainFails ==
    /\ csPc = "posting"
    /\ \E e \in PostErrors, receivedAt \in SCTReceiveTimes(0) :
           csAfterAddChain(Nil, Err(e), receivedAt, FALSE)

\* lc.AddChain(chain) returns, with an SCT timestamped 0 and without
\* extensions or with an error, and st.WriteAPICall returns an error.
csWriteAPICallFails ==
    /\ csPc = "posting"
    /\ \/ \E sct \in {s \in SCTs : s.Timestamp = 0 /\ s.Extensions = "nil"} :
              csAfterAddChain(sct, Nil, 0, TRUE)
       \/ \E e \in PostErrors : csAfterAddChain(Nil, Err(e), 0, TRUE)

\* ------------------------------------------------------------------------
\* The roots getter (rootsgetter.Run, on schedule.Every)
\* ------------------------------------------------------------------------

\* The lists of certificates a get-roots response may parse to.
RootLists == {roots \in CertLists : Nil \notin Range(roots)}

\* A slice of certificates that is not nil.
Slice(roots) == [isNil |-> FALSE, certs |-> roots]

rgInit(pc) ==
    /\ rgPc = pc
    /\ rgTicker = FALSE
    /\ rgTick = FALSE
    /\ rgIter = 0
    /\ rgGetErr = Nil
    /\ rgRoots = Nil
    /\ rgAPICalls = 0
    /\ rgStored = 0
    /\ rgTrace = <<>>

\* What the roots getter leaves alone.
rgOthers ==
    <<ctxDone, procAlive, mmd, sgVars, csVars, raVars, rsVars, extVars>>

\* f is called: getRoots sends its request.
rgCallF ==
    /\ rgIter' = rgIter + 1
    /\ rgPc' = "fetching"
    /\ rgGetErr' = Nil
    /\ rgRoots' = Nil
    /\ rgTrace' = <<>>
    /\ UNCHANGED <<rgTicker, rgAPICalls, rgStored>>
    /\ UNCHANGED rgOthers

\* schedule.Every finds the context already cancelled and returns.
rgEveryCancelled ==
    /\ procAlive
    /\ rgPc = "start"
    /\ ctxDone
    /\ rgPc' = "stopped"
    /\ UNCHANGED <<rgTicker, rgTick, rgIter, rgGetErr, rgRoots, rgAPICalls,
                   rgStored, rgTrace>>
    /\ UNCHANGED rgOthers

\* schedule.Every makes its first call of f, before starting the ticker.
rgEveryFirstCall ==
    /\ procAlive
    /\ rgPc = "start"
    /\ ~ctxDone
    /\ rgIter < MaxIter
    /\ UNCHANGED rgTick
    /\ rgCallF

\* The ticker of schedule.Every puts a tick in its channel, unless the select
\* was blocked when the context was cancelled and has taken ctx.Done().
rgTickerFires ==
    /\ procAlive
    /\ rgTicker
    /\ rgPc \in {"wait", "fetching"}
    /\ ~rgTick
    /\ ~(rgPc = "wait" /\ ctxDone)
    /\ rgIter < MaxIter
    /\ rgTick' = TRUE
    /\ UNCHANGED <<rgPc, rgTicker, rgIter, rgGetErr, rgRoots, rgAPICalls,
                   rgStored, rgTrace>>
    /\ UNCHANGED rgOthers

\* select case <-t.C: f is called.
rgSelectTick ==
    /\ procAlive
    /\ rgPc = "wait"
    /\ rgTick
    /\ rgTick' = FALSE
    /\ rgCallF

\* select case <-ctx.Done(): Every, and then Run, return.
rgSelectDone ==
    /\ procAlive
    /\ rgPc = "wait"
    /\ ctxDone
    /\ rgPc' = "stopped"
    /\ UNCHANGED <<rgTicker, rgTick, rgIter, rgGetErr, rgRoots, rgAPICalls,
                   rgStored, rgTrace>>
    /\ UNCHANGED rgOthers

\* The rest of f, from the return of lc.GetRoots(): getRoots writes the API
\* call and returns the roots, or nil and an error if the write or the
\* request failed; Run logs that error, and hands what getRoots returned to
\* WriteRoots, whose own error is only logged.  When f returns, Every starts
\* its ticker, if it has not yet, and waits.
rgAfterGetRoots(roots, getErr, writeErr, storeErr) ==
    /\ procAlive
    /\ rgPc = "fetching"
    /\ rgGetErr' = getErr
    /\ rgAPICalls' = rgAPICalls + 1
    /\ rgRoots' = IF writeErr \/ getErr # Nil THEN Nil ELSE Slice(roots)
    /\ rgStored' = rgStored + 1
    /\ rgTrace' = <<"fetch", "record">>
                   \o (IF writeErr THEN <<"logRecordError">>
                       ELSE IF getErr # Nil THEN <<"logFetchError">>
                       ELSE <<>>)
                   \o <<"store">>
                   \o (IF storeErr THEN <<"logStoreError">> ELSE <<>>)
    /\ rgPc' = "wait"
    /\ rgTicker' = TRUE
    /\ UNCHANGED <<rgTick, rgIter>>
    /\ UNCHANGED rgOthers

\* lc.GetRoots() returns the roots and no error.
rgGetRootsReturns ==
    /\ rgPc = "fetching"
    /\ \E roots \in RootLists, writeErr \in BOOLEAN, storeErr \in BOOLEAN :
           rgAfterGetRoots(roots, Nil, writeErr, storeErr)

\* lc.GetRoots() returns an error and no roots.
rgGetRootsFails ==
    /\ rgPc = "fetching"
    /\ \E e \in GetErrors, writeErr \in BOOLEAN, storeErr \in BOOLEAN :
           rgAfterGetRoots(<<>>, Err(e), writeErr, storeErr)

\* ------------------------------------------------------------------------
\* The roots analyzer (rootsanalyzer.Run)
\* ------------------------------------------------------------------------

raInit(pc) ==
    /\ raPc = pc
    /\ raClosed = FALSE
    /\ raLast = ""
    /\ raObserved = <<>>
    /\ raReads = <<>>
    /\ raReports = <<>>
    /\ raLogged = 0
    /\ raFailure = "none"

\* What the analyzer leaves alone.
raOthers ==
    <<ctxDone, procAlive, mmd, sgVars, csVars, rootSetCerts, rsVars, rgVars,
      extVars>>

\* The certificates storage holds for a RootSetID: none for an unknown one.
StoredRoots(id) ==
    IF id \in DOMAIN rootSetCerts THEN rootSetCerts[id] ELSE {}

\* A failure that would go on with the loop instead of returning.
raFail_Continue(call) ==
    /\ raLogged' = raLogged + 1
    /\ raFailure' = call
    /\ raPc' = "loop"

\* A call failed: the error is logged and Run returns.
raFail(call) ==
    /\ raLogged' = raLogged + 1
    /\ raFailure' = call
    /\ raPc' = "returned"

\* st.WatchRoots(ctx, l) returns the channel, or an error.
raWatchRoots ==
    /\ procAlive
    /\ raPc = "start"
    /\ \E ok \in BOOLEAN :
           IF ok THEN /\ raPc' = "loop"
                      /\ UNCHANGED <<raLogged, raFailure>>
                 ELSE raFail("WatchRoots")
    /\ UNCHANGED <<raClosed, raLast, raObserved, raReads, raReports>>
    /\ UNCHANGED raOthers

\* select case <-ctx.Done(): Run returns.
raSelectDone ==
    /\ procAlive
    /\ raPc = "loop"
    /\ ctxDone
    /\ raPc' = "returned"
    /\ UNCHANGED <<raClosed, raLast, raObserved, raReads, raReports,
                   raLogged, raFailure>>
    /\ UNCHANGED raOthers

\* The storage closes the watch channel.
raCloseChan ==
    /\ procAlive
    /\ raPc \in {"start", "loop"}
    /\ ~raClosed
    /\ raClosed' = TRUE
    /\ UNCHANGED <<raPc, raLast, raObserved, raReads, raReports, raLogged,
                   raFailure>>
    /\ UNCHANGED raOthers

\* The body of select case rootSetID := <-rootSetChan, for the received
\* value id.  outcome names the call that fails, if one does; oldRoots and
\* newRoots are what the two ReadRoots calls return when they succeed.  Each
\* ReadRoots call and each report is recorded with the number of the
\* received value it was made for.
raHandle(id, outcome, oldRoots, newRoots) ==
    LET at == Len(raObserved) + 1
        readOld == [at |-> at, id |-> raLast]
        readNew == [at |-> at, id |-> id]
        diff == diffRootSets(oldRoots, newRoots)
    IN  /\ raObserved' = Append(raObserved, id)
        /\ IF raChanged(raLast, id)
              THEN CASE outcome = "ReadRootsOld" ->
                          /\ raReads' = Append(raReads, readOld)
                          /\ raFail("ReadRootsOld")
                          /\ UNCHANGED <<raReports, raLast>>
                     [] outcome = "ReadRootsNew" ->
                          /\ raReads' = raReads \o <<readOld, readNew>>
                          /\ raFail("ReadRootsNew")
                          /\ UNCHANGED <<raReports, raLast>>
                     [] outcome = "reportChange" ->
                          /\ raReads' = raReads \o <<readOld, readNew>>
                          /\ raFail("reportChange")
                          /\ UNCHANGED <<raReports, raLast>>
                     [] outcome = "ok" ->
                          /\ raReads' = raReads \o <<readOld, readNew>>
                          /\ \E removed \in SeqsOf(diff.removed) :
                                 raReports' =
                                     Append(raReports,
                                            [at |-> at, kind |-> "update",
                                             incident |->
                                                 reportChange(TheLog(mmd),
                                                     diff.added, removed)])
                          /\ raLast' = raNextLast(raLast, id)
                          /\ UNCHANGED <<raPc, raLogged, raFailure>>
              ELSE /\ outcome = "ok"
                   /\ raLast' = raNextLast(raLast, id)
                   /\ UNCHANGED <<raReads, raReports, raPc, raLogged,
                                  raFailure>>
        /\ UNCHANGED raClosed
        /\ UNCHANGED raOthers

\* What handling a received value may end with: no failure, or the failure
\* of one of the calls it makes.
Outcomes == {"ok", "ReadRootsOld", "ReadRootsNew", "reportChange"}

\* select case rootSetID := <-rootSetChan, with a RootSetID the storage
\* sends.
raReceive ==
    /\ procAlive
    /\ raPc = "loop"
    /\ ~raClosed
    /\ Len(raObserved) < MaxObs
    /\ \E id \in RootSetIDs, outcome \in Outcomes :
           \E oldRoots \in SeqsOf(StoredRoots(raLast)),
              newRoots \in SeqsOf(StoredRoots(id)) :
               raHandle(id, outcome, oldRoots, newRoots)

\* select case rootSetID := <-rootSetChan, on the closed channel: the
\* receive yields the zero RootSetID at once.
raReceiveClosed ==
    /\ procAlive
    /\ raPc = "loop"
    /\ raClosed
    /\ Len(raObserved) < MaxObs
    /\ \E outcome \in Outcomes :
           \E oldRoots \in SeqsOf(StoredRoots(raLast)),
              newRoots \in SeqsOf(StoredRoots("")) :
               raHandle("", outcome, oldRoots, newRoots)

\* ------------------------------------------------------------------------
\* Root sets: GenerateSetID and diffRootSets applied to two lists
\* ------------------------------------------------------------------------

rsInit(pc) ==
    /\ rsPc = pc
    /\ rsOldID = Nil
    /\ rsNewID = Nil
    /\ rsDiff = Nil

\* What the root-set functions leave alone.
rsOthers ==
    <<ctxDone, mmd, sgVars, csVars, raVars, rgVars, rsOld, rsNew, extVars>>

\* GenerateSetID is called on each of the two lists.
rsGenerateSetIDs ==
    /\ procAlive
    /\ rsPc = "input"
    /\ rsOldID' = GenerateSetID(rsOld)
    /\ rsNewID' = GenerateSetID(rsNew)
    /\ rsPc' = "ids"
    /\ UNCHANGED <<rsDiff, procAlive>>
    /\ UNCHANGED rsOthers

\* diffRootSets(rsOld, rsNew) is called.  It reads cert.Raw of every element,
\* so a nil element panics.
rsDiffRootSets ==
    /\ procAlive
    /\ rsPc = "ids"
    /\ IF Nil \in Range(rsOld) \cup Range(rsNew)
          THEN /\ rsPc' = "panicked"
               /\ procAlive' = FALSE
               /\ rsDiff' = rsDiff
          ELSE /\ rsPc' = "diffed"
               /\ procAlive' = procAlive
               /\ rsDiff' = diffRootSets(rsOld, rsNew)
    /\ UNCHANGED <<rsOldID, rsNewID>>
    /\ UNCHANGED rsOthers

\* ------------------------------------------------------------------------
\* Intervals (interval.Interval)
\* ------------------------------------------------------------------------

\* Largest "ordinary" second of an Interval's ends, in seconds since the
\* epoch.
MaxSec == 2

MinInt64 == -Int64Top

MaxInt64 == Int64Top - 1

\* An int64 result of Go arithmetic: two's complement, wrapping.
WrapInt64(x) == ToInt64(x % Uint64Mod)

\* The largest value of Time.Nanosecond().
MaxNanosecond == 999999999

\* time.Time{}.Unix(): the zero Time is January 1, year 1, 00:00:00 UTC, a
\* whole second long before the epoch (scaled down with the word).
ZeroTimeUnix == -62135

\* A time.Time is a second since the epoch and a nanosecond within it.
Time(sec, nsec) == [sec |-> sec, nsec |-> nsec]

\* time.Time{}
ZeroTime == Time(ZeroTimeUnix, 0)

\* t.IsZero()
IsZero(t) == t = ZeroTime

\* t.Before(u)
Before(t, u) == t.sec < u.sec \/ (t.sec = u.sec /\ t.nsec < u.nsec)

Seconds ==
    {MinInt64, ZeroTimeUnix - 1, ZeroTimeUnix, MaxInt64} \cup (-1 .. MaxSec)

Nanoseconds == {0, 1, MaxNanosecond}

Times == {Time(s, n) : s \in Seconds, n \in Nanoseconds}

Interval(start, end) == [isNil |-> FALSE, Start |-> start, End |-> end]

Intervals == {Interval(s, e) : s \in Times, e \in Times} \cup {Nil}

\* The values rand.Int63n(delta) may return, 0 <= r < delta: all of them for
\* a short interval, the ends of the range included for a long one.
Int63n(delta) ==
    (0 .. ((IF delta < MaxSec + 2 THEN delta ELSE MaxSec + 2) - 1))
        \cup {delta - 1}

\* The first second boundary >= t, as RandomSecond computes it.
SecondBoundary(t) == IF t.nsec # 0 THEN WrapInt64(t.sec + 1) ELSE t.sec

\* end - start in RandomSecond.
Delta(i) == WrapInt64(SecondBoundary(i.End) - SecondBoundary(i.Start))

\* i.RandomSecond() returns the zero Time without drawing a random number.
ReturnsZeroEarly(i) ==
    \/ i = Nil
    \/ ~Before(i.Start, i.End)
    \/ Delta(i) = 0

\* i.RandomSecond(): the Times it may return.  rand.Int63n panics when its
\* argument is not positive.
RandomSecond(i) ==
    IF ReturnsZeroEarly(i)
    THEN [panic |-> FALSE, times |-> {ZeroTime}]
    ELSE IF Delta(i) <= 0
         THEN [panic |-> TRUE, times |-> {}]
         ELSE [panic |-> FALSE,
               times |-> {Time(WrapInt64(SecondBoundary(i.Start) + r), 0) :
                              r \in Int63n(Delta(i))}]

ivInit(pc) ==
    /\ ivPc = pc
    /\ ivResult = ZeroTime

\* What RandomSecond leaves alone.
ivOthers == <<coreVars, ivInterval, lcVars, wrVars, coVars>>

\* RandomSecond is called on ivInterval and returns.
ivRandomSecond ==
    /\ ivPc = "input"
    /\ ~RandomSecond(ivInterval).panic
    /\ \E t \in RandomSecond(ivInterval).times :
           ivResult' = t
    /\ ivPc' = "done"
    /\ UNCHANGED ivOthers

\* RandomSecond is called on ivInterval and panics.
ivRandomSecondPanics ==
    /\ ivPc = "input"
    /\ RandomSecond(ivInterval).panic
    /\ ivPc' = "panicked"
    /\ UNCHANGED <<ivResult, ivOthers>>

\* ------------------------------------------------------------------------
\* The LogClient (client.LogClient)
\* ------------------------------------------------------------------------

\* The instants time.Now().UTC() may return: none of them the zero Time.
Nows == {Time(s, 0) : s \in 0 .. MaxSec}

\* The bodies a Log may answer with: nothing, bytes that are not JSON, a JSON
\* object without the fields of the response, and a well-formed response.
Bodies == {"", "notJSON", "{}", "response"}

StatusOK == 200

StatusCodes == {StatusOK, 404, 500}

\* A []byte that has been set.
Bytes(b) == [isNil |-> FALSE, bytes |-> b]

\* An http.Response: its status, whether reading its body fails, and the
\* bytes the body yields.
Response(status, readErr, body) ==
    [isNil |-> FALSE, StatusCode |-> status, readErr |-> readErr,
     body |-> body]

Responses ==
    {Response(s, r, b) : s \in StatusCodes, r \in BOOLEAN, b \in Bodies}

\* What lc.httpClient.Get or Post returns: an error, or a response that may
\* be nil.
Transports ==
    {[err |-> TRUE, resp |-> Nil]}
        \cup {[err |-> FALSE, resp |-> r] : r \in Responses \cup {Nil}}

HTTPData(start, end, resp, body) ==
    [isNil |-> FALSE, Timing |-> [Start |-> start, End |-> end],
     Response |-> resp, Body |-> body]

\* get and post: the HTTPData and the error they return for what the HTTP
\* client returned between the instants start and end.  requestError is
\* "GetError" for get and "PostError" for post.
request(requestError, start, end, tr) ==
    IF tr.err
    THEN [httpData |-> HTTPData(start, end, Nil, Nil),
          err |-> Err(requestError)]
    ELSE IF tr.resp = Nil
    THEN [httpData |-> HTTPData(start, end, Nil, Nil),
          err |-> Err("NilResponseError")]
    ELSE IF tr.resp.readErr
    THEN [httpData |-> HTTPData(start, end, tr.resp, Nil),
          err |-> Err("BodyReadError")]
    ELSE IF tr.resp.StatusCode # StatusOK
    THEN [httpData |-> HTTPData(start, end, tr.resp, Bytes(tr.resp.body)),
          err |-> Err("HTTPStatusError")]
    ELSE [httpData |-> HTTPData(start, end, tr.resp, Bytes(tr.resp.body)),
          err |-> Nil]

get(start, end, tr) == request("GetError", start, end, tr)

post(start, end, tr) == request("PostError", start, end, tr)

\* json.Unmarshal(body, rsp) fails.
UnmarshalFails(body) == body \in {"", "notJSON"}

\* getAndParse and postAndParse, applied to what get or post returned.
andParse(r) ==
    IF r.err # Nil THEN r
    ELSE IF UnmarshalFails(r.httpData.Body.bytes)
    THEN [httpData |-> r.httpData, err |-> Err("JSONParseError")]
    ELSE r

getAndParse(start, end, tr) == andParse(get(start, end, tr))

postAndParse(start, end, tr) == andParse(post(start, end, tr))

\* The conversion of a parsed response to the struct the method returns
\* (ToSignedTreeHead, the certificates loop of GetRoots,
\* ToSignedCertificateTimestamp) fails: the response lacks its fields.
ToStructFails(body) == body = "{}"

\* What GetSTH, GetRoots and AddChain do with what getAndParse or
\* postAndParse returned: value is TRUE when the first result is not nil.
toStruct(r) ==
    IF r.err # Nil
    THEN [value |-> FALSE, httpData |-> r.httpData, err |-> r.err]
    ELSE IF ToStructFails(r.httpData.Body.bytes)
    THEN [value |-> FALSE, httpData |-> r.httpData,
          err |-> Err("ResponseToStructError")]
    ELSE [value |-> TRUE, httpData |-> r.httpData, err |-> Nil]

GetSTH(start, end, tr) == toStruct(getAndParse(start, end, tr))

GetRoots(start, end, tr) == toStruct(getAndParse(start, end, tr))

\* AddChain: json.Marshal(req) may return an error, and then no request is
\* made.
AddChain(marshalErr, start, end, tr) ==
    IF marshalErr
    THEN [value |-> FALSE, httpData |-> Nil, err |-> Err("error")]
    ELSE toStruct(postAndParse(start, end, tr))

lcInit(pc) ==
    /\ lcPc = pc
    /\ lcMethod = ""
    /\ lcValue = FALSE
    /\ lcHTTPData = Nil
    /\ lcErr = Nil

\* What the LogClient leaves alone.
lcOthers == <<coreVars, ivVars, wrVars, coVars>>

\* A method of the LogClient has returned result.
lcReturn(method, value, httpData, err) ==
    /\ lcPc = "idle"
    /\ lcPc' = "returned"
    /\ lcMethod' = method
    /\ lcValue' = value
    /\ lcHTTPData' = httpData
    /\ lcErr' = err
    /\ UNCHANGED lcOthers

lcGet ==
    \E start \in Nows, end \in Nows, tr \in Transports :
        LET r == get(start, end, tr)
        IN  lcReturn("get", FALSE, r.httpData, r.err)

lcPost ==
    \E start \in Nows, end \in Nows, tr \in Transports :
        LET r == post(start, end, tr)
        IN  lcReturn("post", FALSE, r.httpData, r.err)

lcGetSTH ==
    \E start \in Nows, end \in Nows, tr \in Transports :
        LET r == GetSTH(start, end, tr)
        IN  lcReturn("GetSTH", r.value, r.httpData, r.err)

lcGetRoots ==
    \E start \in Nows, end \in Nows, tr \in Transports :
        LET r == GetRoots(start, end, tr)
        IN  lcReturn("GetRoots", r.value, r.httpData, r.err)

lcAddChain ==
    \E marshalErr \in BOOLEAN, start \in Nows, end \in Nows,
       tr \in Transports :
        LET r == AddChain(marshalErr, start, end, tr)
        IN  lcReturn("AddChain", r.value, r.httpData, r.err)

\* The caller is ready for another request.
lcNextCall ==
    /\ lcPc = "returned"
    /\ lcPc' = "idle"
    /\ lcMethod' = ""
    /\ lcValue' = FALSE
    /\ lcHTTPData' = Nil
    /\ lcErr' = Nil
    /\ UNCHANGED lcOthers

\* ------------------------------------------------------------------------
\* The MySQL root store (mysql.rootStore)
\* ------------------------------------------------------------------------

\* Number of WriteRoots calls made in one behaviour.
MaxCalls == 2

\* The lists of roots handed to WriteRoots: the certificates of any set in
\* any order, with or without a repeated certificate, and a list with a nil
\* pointer.
WriteRootsLists ==
    UNION {{s \o d : s \in SeqsOf(S),
                     d \in {<<>>} \cup {<<c>> : c \in S}} : S \in SUBSET Certs}
        \cup {<<Nil>>}

\* The Logs and the instants of the observations: two instants within one
\* second, one in the next second, and another Log.
Observations ==
    {[LogName |-> "pilot", receivedAt |-> Time(0, 0)],
     [LogName |-> "pilot", receivedAt |-> Time(0, 1)],
     [LogName |-> "pilot", receivedAt |-> Time(1, 0)],
     [LogName |-> "rocketeer", receivedAt |-> Time(0, 0)]}

\* The value a DATETIME column stores for a time.Time: the driver sends it
\* with microseconds, and a DATETIME without a fractional part rounds them to
\* the nearest second.
DATETIME(t) ==
    IF t.nsec \div 1000 >= 500000 THEN Time(t.sec + 1, 0) ELSE Time(t.sec, 0)

EmptyDB ==
    [Roots |-> EmptyBag, RootSets |-> EmptyBag,
     RootSetObservations |-> EmptyBag]

\* The primary key of a row: Id in Roots, the whole row in the other tables.
PrimaryKey(table, row) == IF table = "Roots" THEN row.Id ELSE row

\* A plain INSERT that adds its row whatever the table holds.
Insert_NoKeyCheck(db, table, row) ==
    [db EXCEPT ![table] = @ (+) SetToBag({row})]

\* INSERT INTO table ... ON DUPLICATE KEY UPDATE <nothing>: the row is added
\* unless a row with its primary key is there.
Insert(db, table, row) ==
    IF \E r \in BagToSet(db[table]) :
           PrimaryKey(table, r) = PrimaryKey(table, row)
    THEN db
    ELSE [db EXCEPT ![table] = @ (+) SetToBag({row})]

\* The statements WriteRoots executes, in order: for each root a row of Roots
\* and a row of RootSets, then a row of RootSetObservations.
RECURSIVE RootStatements(_, _)
RootStatements(roots, rootSetID) ==
    IF roots = <<>> THEN <<>>
    ELSE LET rootID == GenerateCertID(Head(roots)).id
         IN  <<[table |-> "Roots",
                row |-> [Id |-> rootID, DER |-> Head(roots).Raw]],
               [table |-> "RootSets",
                row |-> [RootSetID |-> rootSetID, RootID |-> rootID]]>>
                 \o RootStatements(Tail(roots), rootSetID)

Statements(logName, roots, receivedAt) ==
    LET rootSetID == GenerateSetID(roots).setID
    IN  Append(RootStatements(roots, rootSetID),
               [table |-> "RootSetObservations",
                row |-> [LogName |-> logName, RootSetID |-> rootSetID,
                         ReceivedAt |-> DATETIME(receivedAt)]])

\* The database after the first n of the statements.
RECURSIVE Exec(_, _, _)
Exec(db, statements, n) ==
    IF n = 0 THEN db
    ELSE Exec(Insert(db, statements[1].table, statements[1].row),
              Tail(statements), n - 1)

\* The statements at which a WriteRoots call may fail; 0 is "none fails".
FailAts(roots) ==
    IF GenerateSetID(roots).err THEN {0} ELSE 0 .. (2 * Len(roots) + 1)

\* rs.WriteRoots(ctx, l, roots, receivedAt) on the database db, when the
\* failAt-th ExecContext returns an error: the error it returns and the
\* database it leaves.
WriteRoots(db, logName, roots, receivedAt, failAt) ==
    IF GenerateSetID(roots).err
    THEN [err |-> TRUE, db |-> db]
    ELSE LET statements == Statements(logName, roots, receivedAt)
         IN  IF failAt = 0
             THEN [err |-> FALSE, db |-> Exec(db, statements, Len(statements))]
             ELSE [err |-> TRUE, db |-> Exec(db, statements, failAt - 1)]

wrInit(pc) ==
    /\ wrPc = pc
    /\ wrDB = EmptyDB
    /\ wrWritten = {}
    /\ wrCalls = 0
    /\ wrFailed = 0

\* What the root store leaves alone.
wrOthers == <<coreVars, ivVars, lcVars, wrPc, coVars>>

\* A WriteRoots call returns result.
wrReturn(ob, roots, result) ==
    /\ wrPc = "ready"
    /\ wrCalls < MaxCalls
    /\ wrCalls' = wrCalls + 1
    /\ wrDB' = result.db
    /\ wrFailed' = wrFailed + (IF result.err THEN 1 ELSE 0)
    /\ wrWritten' =
           IF result.err THEN wrWritten
           ELSE wrWritten \cup {[LogName |-> ob.LogName,
                                 contents |-> Range(roots),
                                 receivedAt |-> ob.receivedAt]}
    /\ UNCHANGED wrOthers

\* WriteRoots is called and every statement succeeds, or GenerateSetID
\* refuses the roots.
wrWriteRoots ==
    \E ob \in Observations, roots \in WriteRootsLists :
        wrReturn(ob, roots,
                 WriteRoots(wrDB, ob.LogName, roots, ob.receivedAt, 0))

\* WriteRoots is called and one of its statements fails.
wrWriteRootsFails ==
    \E ob \in Observations, roots \in WriteRootsLists :
        \E failAt \in FailAts(roots) \ {0} :
            wrReturn(ob, roots,
                     WriteRoots(wrDB, ob.LogName, roots, ob.receivedAt,
                                failAt))

\* ------------------------------------------------------------------------
\* The collector (collector.Run)
\* ------------------------------------------------------------------------

\* The polling periods of a Config: negative, zero (disabled) and positive.
Periods == {-1, 0, 1}

\* A ctlog.Log, as far as the collector looks at it: whether
\* ct.NewSignatureVerifier accepts its public key.
Logs == {[isNil |-> FALSE, keySupported |-> k] : k \in BOOLEAN}

Config(log, sthGetPeriod, rootsGetPeriod) ==
    [isNil |-> FALSE, Log |-> log, STHGetPeriod |-> sthGetPeriod,
     RootsGetPeriod |-> rootsGetPeriod]

Configs ==
    {Config(l, s, r) : l \in Logs \cup {Nil}, s \in Periods, r \in Periods}
        \cup {Nil}

CollectorTasks == {"sthgetter", "rootsgetter"}

\* The error Run returns before it starts anything, or Nil.
RunError(cfg) ==
    IF cfg = Nil THEN Err("nil Config")
    ELSE IF cfg.Log = Nil THEN Err("no Log provided in Config")
    ELSE IF ~cfg.Log.keySupported
    THEN Err("couldn't create signature verifier")
    ELSE Nil

\* A task whose period is zero is started all the same.
Enabled_NotNegative(period) == period >= 0

\* The task polling with this period is started.
Enabled(period) == period > 0

coInit(pc) ==
    /\ coPc = pc
    /\ coErr = Nil
    /\ coTask = [t \in CollectorTasks |-> "notStarted"]
    /\ coWg = 0

\* What the collector leaves alone.
coOthers == <<coreVars, ivVars, lcVars, wrVars, coCfg>>

\* Run checks its Config and creates the client and the signature verifier;
\* it returns an error if it cannot.
coCheckConfig ==
    /\ coPc = "check"
    /\ coErr' = RunError(coCfg)
    /\ coPc' = IF RunError(coCfg) = Nil THEN "startSTHGetter" ELSE "returned"
    /\ UNCHANGED <<coTask, coWg, coOthers>>

\* if cfg.STHGetPeriod > 0 { wg.Add(1); go sthgetter.Run(...) }
coStartSTHGetter ==
    /\ coPc = "startSTHGetter"
    /\ coPc' = "startRootsGetter"
    /\ IF Enabled(coCfg.STHGetPeriod)
          THEN /\ coWg' = coWg + 1
               /\ coTask' = [coTask EXCEPT !["sthgetter"] = "running"]
          ELSE UNCHANGED <<coWg, coTask>>
    /\ UNCHANGED <<coErr, coOthers>>

\* if cfg.RootsGetPeriod > 0 { wg.Add(1); go rootsgetter.Run(...) }
coStartRootsGetter ==
    /\ coPc = "startRootsGetter"
    /\ coPc' = "wait"
    /\ IF Enabled(coCfg.RootsGetPeriod)
          THEN /\ coWg' = coWg + 1
               /\ coTask' = [coTask EXCEPT !["rootsgetter"] = "running"]
          ELSE UNCHANGED <<coWg, coTask>>
    /\ UNCHANGED <<coErr, coOthers>>

\* A task's Run returns, which it does only once the context is cancelled,
\* and its goroutine calls wg.Done().
coTaskReturns(t) ==
    /\ coTask[t] = "running"
    /\ ctxDone
    /\ coTask' = [coTask EXCEPT ![t] = "returned"]
    /\ coWg' = coWg - 1
    /\ UNCHANGED <<coPc, coErr, coOthers>>

coSTHGetterReturns == coTaskReturns("sthgetter")

coRootsGetterReturns == coTaskReturns("rootsgetter")

\* wg.Wait() returns and Run returns nil.
coWaitReturns ==
    /\ coPc = "wait"
    /\ coWg = 0
    /\ coPc' = "returned"
    /\ UNCHANGED <<coErr, coTask, coWg, coOthers>>

\* ------------------------------------------------------------------------
\* Components that are not running
\* ------------------------------------------------------------------------

ivOff ==
    /\ ivInterval = Nil
    /\ ivInit("off")

lcOff == lcInit("off")

wrOff == wrInit("off")

coOff ==
    /\ coCfg = Nil
    /\ coInit("off")

extOff ==
    /\ ivOff
    /\ lcOff
    /\ wrOff
    /\ coOff

coreOff ==
    /\ ctxDone = FALSE
    /\ procAlive = TRUE
    /\ mmd = 0
    /\ sgInit("off")
    /\ csInit("off")
    /\ rootSetCerts = [id \in RootSetIDs |-> {}]
    /\ raInit("off")
    /\ rsOld = <<>>
    /\ rsNew = <<>>
    /\ rsInit("off")
    /\ rgInit("off")

\* ------------------------------------------------------------------------
\* Specifications
\* ------------------------------------------------------------------------

\* The STH getter running alone.
InitSTH ==
    /\ ctxDone = FALSE
    /\ procAlive = TRUE
    /\ mmd \in MMDs
    /\ sgInit("wait")
    /\ csInit("off")
    /\ rootSetCerts = [id \in RootSetIDs |-> {}]
    /\ raInit("off")
    /\ rsOld = <<>>
    /\ rsNew = <<>>
    /\ rsInit("off")
    /\ rgInit("off")
    /\ extOff

NextSTH ==
    \/ Cancel
    \/ sgTickerFires
    \/ sgSelectTick
    \/ sgSelectDone
    \/ sgGetSTHReturns
    \/ sgGetSTHFails
    \/ sgWriteAPICallFails

SpecSTH == InitSTH /\ [][NextSTH]_vars

\* The certificate submitter running alone (the Log's MMD plays no part in
\* it).
InitSCT ==
    /\ ctxDone = FALSE
    /\ procAlive = TRUE
    /\ mmd = 0
    /\ sgInit("off")
    /\ csInit("start")
    /\ rootSetCerts = [id \in RootSetIDs |-> {}]
    /\ raInit("off")
    /\ rsOld = <<>>
    /\ rsNew = <<>>
    /\ rsInit("off")
    /\ rgInit("off")
    /\ extOff

NextSCT ==
    \/ Cancel
    \/ csEveryCancelled
    \/ csEveryFirstCall
    \/ csTickerFires
    \/ csSelectTick
    \/ csSelectDone
    \/ csAddChainReturns
    \/ csAddChainFails
    \/ csWriteAPICallFails

SpecSCT == InitSCT /\ [][NextSCT]_vars

\* The roots analyzer running alone, on a storage holding any certificates
\* for each RootSetID.
InitRoots ==
    /\ ctxDone = FALSE
    /\ procAlive = TRUE
    /\ mmd = 0
    /\ sgInit("off")
    /\ csInit("off")
    /\ rootSetCerts \in [RootSetIDs -> SUBSET Certs]
    /\ raInit("start")
    /\ rsOld = <<>>
    /\ rsNew = <<>>
    /\ rsInit("off")
    /\ rgInit("off")
    /\ extOff

NextRoots ==
    \/ Cancel
    \/ raWatchRoots
    \/ raSelectDone
    \/ raCloseChan
    \/ raReceive
    \/ raReceiveClosed

SpecRoots == InitRoots /\ [][NextRoots]_vars

\* GenerateSetID and diffRootSets applied to any two lists of certificates.
InitRootSets ==
    /\ ctxDone = FALSE
    /\ procAlive = TRUE
    /\ mmd = 0
    /\ sgInit("off")
    /\ csInit("off")
    /\ rootSetCerts = [id \in RootSetIDs |-> {}]
    /\ raInit("off")
    /\ rsOld \in CertLists
    /\ rsNew \in CertLists
    /\ rsInit("input")
    /\ rgInit("off")
    /\ extOff

NextRootSets ==
    \/ rsGenerateSetIDs
    \/ rsDiffRootSets

SpecRootSets == InitRootSets /\ [][NextRootSets]_vars

\* The periodic tasks, each running alone: the STH getter, the certificate
\* submitter or the roots getter.
Tasks == {"sthgetter", "certsubmitter", "rootsgetter"}

InitTasks ==
    /\ ctxDone = FALSE
    /\ procAlive = TRUE
    /\ rootSetCerts = [id \in RootSetIDs |-> {}]
    /\ raInit("off")
    /\ rsOld = <<>>
    /\ rsNew = <<>>
    /\ rsInit("off")
    /\ extOff
    /\ \E task \in Tasks :
           /\ mmd \in (IF task = "sthgetter" THEN MMDs ELSE {0})
           /\ sgInit(IF task = "sthgetter" THEN "wait" ELSE "off")
           /\ csInit(IF task = "certsubmitter" THEN "start" ELSE "off")
           /\ rgInit(IF task = "rootsgetter" THEN "start" ELSE "off")

NextTasks ==
    \/ Cancel
    \/ sgTickerFires
    \/ sgSelectTick
    \/ sgSelectDone
    \/ sgGetSTHReturns
    \/ sgGetSTHFails
    \/ sgWriteAPICallFails
    \/ csEveryCancelled
    \/ csEveryFirstCall
    \/ csTickerFires
    \/ csSelectTick
    \/ csSelectDone
    \/ csAddChainReturns
    \/ csAddChainFails
    \/ csWriteAPICallFails
    \/ rgEveryCancelled
    \/ rgEveryFirstCall
    \/ rgTickerFires
    \/ rgSelectTick
    \/ rgSelectDone
    \/ rgGetRootsReturns
    \/ rgGetRootsFails

SpecTasks == InitTasks /\ [][NextTasks]_vars

\* Interval.RandomSecond applied to any Interval.
InitInterval ==
    /\ coreOff
    /\ ivInterval \in Intervals
    /\ ivInit("input")
    /\ lcOff
    /\ wrOff
    /\ coOff

NextInterval ==
    \/ ivRandomSecond
    \/ ivRandomSecondPanics

SpecInterval == InitInterval /\ [][NextInterval]_vars

\* The LogClient making any requests, one after the other.
InitLogClient ==
    /\ coreOff
    /\ ivOff
    /\ lcInit("idle")
    /\ wrOff
    /\ coOff

NextLogClient ==
    \/ lcGet
    \/ lcPost
    \/ lcGetSTH
    \/ lcGetRoots
    \/ lcAddChain
    \/ lcNextCall

SpecLogClient == InitLogClient /\ [][NextLogClient]_vars

\* The root store receiving any WriteRoots calls, one after the other, on an
\* empty database.
InitRootStore ==
    /\ coreOff
    /\ ivOff
    /\ lcOff
    /\ wrInit("ready")
    /\ coOff

NextRootStore ==
    \/ wrWriteRoots
    \/ wrWriteRootsFails

SpecRootStore == InitRootStore /\ [][NextRootStore]_vars

\* collector.Run called with any Config, and the tasks it starts.
InitCollector ==
    /\ coreOff
    /\ ivOff
    /\ lcOff
    /\ wrOff
    /\ coCfg \in Configs
    /\ coInit("check")

NextCollector ==
    \/ Cancel
    \/ coCheckConfig
    \/ coStartSTHGetter
    \/ coStartRootsGetter
    \/ coSTHGetterReturns
    \/ coRootsGetterReturns
    \/ coWaitReturns

SpecCollector == InitCollector /\ [][NextCollector]_vars

\* Shutdown: any one of the periodic tasks, the roots analyzer, or the
\* collector with the tasks it starts, under the scheduling of the Go
\* runtime.  A goroutine that can take a step takes it; a call in progress
\* returns; and a select that is ready to receive from ctx.Done() again and
\* again takes that case in the end, since select chooses at random among
\* its ready cases.
InitShutdown == InitTasks \/ InitRoots \/ InitCollector

NextShutdown == NextTasks \/ NextRoots \/ NextCollector

\* A call in progress returns, and a goroutine that can take its next step
\* takes it.  One component runs in a behaviour, and the steps of the
\* collector's goroutines do not disable one another, so the fairness of
\* each step is the fairness of their disjunction.
Steps ==
    \/ /\ sgPc = "fetching"
       /\ sgGetSTHReturns \/ sgGetSTHFails \/ sgWriteAPICallFails
    \/ /\ csPc = "start"
       /\ csEveryCancelled \/ csEveryFirstCall
    \/ /\ csPc = "posting"
       /\ csAddChainReturns \/ csAddChainFails \/ csWriteAPICallFails
    \/ /\ rgPc = "start"
       /\ rgEveryCancelled \/ rgEveryFirstCall
    \/ /\ rgPc = "fetching"
       /\ rgGetRootsReturns \/ rgGetRootsFails
    \/ /\ raPc = "start"
       /\ raWatchRoots
    \/ /\ coPc # "off"
       /\ \/ coCheckConfig \/ coStartSTHGetter \/ coStartRootsGetter
          \/ coSTHGetterReturns \/ coRootsGetterReturns \/ coWaitReturns

\* The case <-ctx.Done() of a task's select.
SelectDone == sgSelectDone \/ csSelectDone \/ rgSelectDone \/ raSelectDone

FairShutdown ==
    /\ WF_vars(Steps)
    /\ SF_vars(SelectDone)

SpecShutdown == InitShutdown /\ [][NextShutdown]_vars /\ FairShutdown

\* ------------------------------------------------------------------------
\* Properties of the STH checks
\* ------------------------------------------------------------------------

\* checkSTH was called in this iteration.
sgChecked == "verify" \in Range(sgTrace)

\* The time between the STH's instant and its receipt.
sgAge == sgReceivedAt - MsToInstant(sgSTH.Timestamp)

\* C1: whenever checkSTH has run, its result is exactly: a
\* SignatureVerificationError iff the signature does not verify, followed by
\* an OldTimestampError iff the STH is older than the Log's MMD; both checks
\* are made whatever the other finds, the signature error comes first, and
\* the list is empty iff both checks pass.
C1_CheckSTHReportsEveryFailure ==
    sgChecked =>
        LET sigFails == ~VerifySTHSignature("logKey", sgSTH)
            tooOld == sgAge > mmd
        IN  /\ ("SignatureVerificationError" \in Range(sgErrs)) <=> sigFails
            /\ ("OldTimestampError" \in Range(sgErrs)) <=> tooOld
            /\ Range(sgErrs) \subseteq
                    {"SignatureVerificationError", "OldTimestampError"}
            /\ Len(sgErrs) = Cardinality(Range(sgErrs))
            /\ Len(sgErrs) = 2 => sgErrs[1] = "SignatureVerificationError"
            /\ (sgErrs = <<>>) <=> (~sigFails /\ ~tooOld)

\* An STH whose signature does not verify and which is too old was checked,
\* and both errors were reported.
C1_Witness ==
    /\ sgChecked
    /\ ~VerifySTHSignature("logKey", sgSTH)
    /\ sgAge > mmd
    /\ sgErrs = <<"SignatureVerificationError", "OldTimestampError">>

\* C2: the freshness check reports OldTimestampError iff the STH's instant
\* is strictly before receivedAt - MMD: received exactly MMD after its
\* instant it is accepted, received MMD + 1ns or more after it, rejected.
C2_FreshnessBoundary ==
    sgChecked =>
        /\ ("OldTimestampError" \in Range(sgErrs)) <=>
                (MsToInstant(sgSTH.Timestamp) < sgReceivedAt - mmd)
        /\ sgAge = mmd => "OldTimestampError" \notin Range(sgErrs)
        /\ sgAge >= mmd + 1 => "OldTimestampError" \in Range(sgErrs)

\* An STH received exactly one (non-zero) MMD after its instant was checked
\* and no freshness error was reported.
C2_Witness ==
    /\ sgChecked
    /\ mmd > 0
    /\ sgAge = mmd
    /\ "OldTimestampError" \notin Range(sgErrs)


\* ------------------------------------------------------------------------
\* Properties of the SCT checks
\* ------------------------------------------------------------------------

\* checkSCT was called in this iteration and returned.
csChecked == "verify" \in Range(csTrace)

\* The order in which checkSCT reports its errors.
SCTErrorOrder ==
    <<"SCTVersionError", "SCTLogIDError", "SCTExtensionsError",
      "SignatureVerificationError", "SCTFromFutureError">>

SCTErrorRank(e) == CHOOSE i \in DOMAIN SCTErrorOrder : SCTErrorOrder[i] = e

csVersionOK == csSCT.SCTVersion = "V1"

csLogIDOK == csSCT.LogID = TheLog(mmd).LogID

csExtensionsOK == ExtBytes(csSCT.Extensions) = <<>>

csSignatureOK == VerifySCTWithVerifier("logKey", csChain, csSCT)

csTimestampOK == MsToInstant(csSCT.Timestamp) <= csReceivedAt

\* The signature is the Log's, made over the submitted leaf, this timestamp,
\* version 1 and no extensions: the signature of the valid form of this SCT.
csSignedAsValid ==
    csSCT.Signature =
        SCTSignature("logKey", "V1", csSCT.Timestamp, <<>>, csChain.leaf)

C4_SignedFieldChanged ==
    (csChecked /\ csSignedAsValid /\ csLogIDOK /\ csTimestampOK) =>
        /\ (~csVersionOK /\ csExtensionsOK) =>
               csErrs = <<"SCTVersionError", "SignatureVerificationError">>
        /\ (csVersionOK /\ ~csExtensionsOK) =>
               csErrs = <<"SCTExtensionsError", "SignatureVerificationError">>

\* An otherwise-valid SCT with its version changed was checked.
C4_Witness ==
    /\ csChecked /\ csSignedAsValid /\ csLogIDOK /\ csTimestampOK
    /\ ~csVersionOK /\ csExtensionsOK
    /\ Len(csErrs) = 2

\* C5: the result of the signature check is the same for the SCT and for any
\* SCT differing from it only in Log ID, and an otherwise-valid SCT with a
\* wrong Log ID yields exactly <<SCTLogIDError>>.
C5_LogIDNotSigned ==
    csChecked =>
        /\ \A id \in LogIDs :
               ("SignatureVerificationError" \in
                    Range(checkSCT([csSCT EXCEPT !.LogID = id], csChain,
                                   "logKey", TheLog(mmd))))
               <=> ("SignatureVerificationError" \in Range(csErrs))
        /\ (/\ csSignedAsValid /\ csVersionOK /\ csExtensionsOK
            /\ csTimestampOK /\ ~csLogIDOK)
               => csErrs = <<"SCTLogIDError">>

\* An otherwise-valid SCT with a wrong Log ID was checked.
C5_Witness ==
    /\ csChecked /\ csSignedAsValid /\ csVersionOK /\ csExtensionsOK
    /\ csTimestampOK /\ ~csLogIDOK
    /\ Len(csErrs) = 1

raReportsAt(k) == {i \in DOMAIN raReports : raReports[i].at = k}

\* The ReadRoots calls made for the k-th received value.
raReadsAt(k) == {i \in DOMAIN raReads : raReads[i].at = k}

\* A call made while handling a received value failed.
raHandlingFailed ==
    raFailure \in {"ReadRootsOld", "ReadRootsNew", "reportChange"}

\* C7: for every RootSetID observed after the first, if it differs from the
\* one observed just before it and handling it met no error, exactly one
\* report was handed to the reporter for it, and if it equals the one
\* observed just before it, none was; every report is an "update", never a
\* "violation".  So a sequence flapping A, B, A, B reports on every flap.
C7_OneUpdatePerChange ==
    \A k \in DOMAIN raObserved :
        raObserved[k] # "" =>
            /\ \A i \in raReportsAt(k) : raReports[i].kind = "update"
            /\ (/\ k > 1
                /\ raObserved[k] # raObserved[k - 1]
                /\ ~(k = Len(raObserved) /\ raHandlingFailed))
                   => Cardinality(raReportsAt(k)) = 1
            /\ (k > 1 /\ raObserved[k] = raObserved[k - 1])
                   => Cardinality(raReportsAt(k)) = 0

\* The analyzer has observed id1, id2, id1, id2 and has reported three
\* times, once for each flap.
C7_Witness ==
    /\ raObserved = <<"id1", "id2", "id1", "id2">>
    /\ raFailure = "none"
    /\ Len(raReports) = 3
    /\ \A k \in 2 .. 4 : Cardinality(raReportsAt(k)) = 1

\* C8: for the first value received, whatever it is, no ReadRoots call and
\* no report is made, and the value is remembered.
C8_FirstObservationOnlyRemembered ==
    /\ raReadsAt(1) = {}
    /\ raReportsAt(1) = {}
    /\ Len(raObserved) = 1 => (raLast = raObserved[1] /\ raFailure = "none")

\* The analyzer has received its first RootSetID and only remembered it.
C8_Witness ==
    /\ Len(raObserved) = 1
    /\ raObserved[1] = "id2"
    /\ raLast = "id2"
    /\ raReads = <<>>
    /\ raReports = <<>>

\* C9: a report is handed to the reporter only if the diff of the two root
\* sets read back has an added or a removed certificate.
C9_ReportOnlyIfDiffNonEmpty ==
    \A i \in DOMAIN raReports :
        raObserved[raReports[i].at] # "" =>
            \/ raReports[i].incident.AddedCerts # <<>>
            \/ raReports[i].incident.RemovedCerts # <<>>

raFailed == raFailure # "none"

\* What the loop has made, holds and is at.
raProgress == <<raPc, raLast, raObserved, raReads, raReports>>

\* C10: when WatchRoots, either ReadRoots call or reportChange fails, the
\* error is logged and the loop instance has returned; the step that fails
\* hands no report to the reporter; after it the loop makes no further call,
\* report or receive; and the process goes on running.
C10_FailureEndsLoopOnly ==
    /\ [](raFailed => (raPc = "returned" /\ raLogged >= 1 /\ procAlive))
    /\ [][(~raFailed /\ raFailed') =>
              (/\ raReports' = raReports
               /\ raLogged' = raLogged + 1
               /\ ctxDone' = ctxDone)]_vars
    /\ [][raFailed => raProgress' = raProgress]_vars

\* The second ReadRoots call of a change has failed, the loop has returned,
\* and the context has since been cancelled.
C10_Witness ==
    /\ raFailure = "ReadRootsNew"
    /\ raPc = "returned"
    /\ Len(raObserved) = 2
    /\ Len(raReads) = 2
    /\ raReports = <<>>
    /\ ctxDone

\* ------------------------------------------------------------------------
\* Properties of GenerateSetID and diffRootSets
\* ------------------------------------------------------------------------

\* GenerateSetID has been called on both lists.
rsIDsMade == rsPc \in {"ids", "diffed", "panicked"}

\* The distinct certificate contents of a list.
Contents(roots) == {c.Raw : c \in Range(roots) \ {Nil}}

\* C11: GenerateSetID depends only on the set of distinct elements of its
\* argument: two lists with the same distinct elements, in whatever order and
\* however often repeated, get the same result.
C11_SetIDOfDistinctContents ==
    (rsIDsMade /\ Range(rsOld) = Range(rsNew)) => rsOldID = rsNewID

\* Two lists of different lengths and orders with the same two certificates
\* have been given an ID.
C11_Witness ==
    /\ rsIDsMade
    /\ Range(rsOld) = Range(rsNew)
    /\ Cardinality(Contents(rsOld)) >= 2
    /\ Nil \notin Range(rsOld)
    /\ Len(rsOld) < Len(rsNew)
    /\ rsOld[1] # rsNew[1]
    /\ ~rsOldID.err
    /\ rsOldID = rsNewID

\* A list without duplicates.
NoDuplicates(roots) == Len(roots) = Cardinality(Range(roots))

\* The certificates of a that have the raw bytes of no certificate of b.
NotIn(a, b) == {c \in Range(a) : \A d \in Range(b) : d.Raw # c.Raw}

\* C12: for old and new without internal duplicates, diffRootSets returns as
\* added exactly the certificates of new that are not in old, and as removed
\* exactly the certificates of old that are not in new, compared by raw
\* bytes; both are empty when old and new hold the same certificates.
C12_DiffIsSetDifference ==
    (rsPc = "diffed" /\ NoDuplicates(rsOld) /\ NoDuplicates(rsNew)) =>
        /\ Range(rsDiff.added) = NotIn(rsNew, rsOld)
        /\ NoDuplicates(rsDiff.added)
        /\ rsDiff.removed = NotIn(rsOld, rsNew)
        /\ (Range(rsOld) = Range(rsNew) =>
               rsDiff.added = <<>> /\ rsDiff.removed = {})

\* diffRootSets has returned a certificate added and another one removed for
\* two lists without duplicates.
C12_Witness ==
    /\ rsPc = "diffed"
    /\ NoDuplicates(rsOld)
    /\ NoDuplicates(rsNew)
    /\ rsDiff.added # <<>>
    /\ rsDiff.removed # {}
    /\ Range(rsDiff.added) # rsDiff.removed

\* C13: two lists of certificates whose sets of distinct contents differ get
\* different identifiers from GenerateSetID (the digests of the model do not
\* collide).
C13_DifferentContentsDifferentSetID ==
    (/\ rsIDsMade
     /\ Nil \notin Range(rsOld) \cup Range(rsNew)
     /\ Contents(rsOld) # Contents(rsNew)) =>
        /\ ~rsOldID.err
        /\ ~rsNewID.err
        /\ rsOldID.setID # rsNewID.setID

\* Two lists of the same length of which one holds a certificate the other
\* does not have been given different identifiers.
C13_Witness ==
    /\ rsIDsMade
    /\ Nil \notin Range(rsOld) \cup Range(rsNew)
    /\ Len(rsOld) = Len(rsNew)
    /\ Contents(rsOld) # Contents(rsNew)
    /\ Contents(rsOld) \subseteq Contents(rsNew)
    /\ Contents(rsOld) # {}
    /\ rsOldID.setID # rsNewID.setID

\* ------------------------------------------------------------------------
\* Properties of the root-change report
\* ------------------------------------------------------------------------

\* s lists its certificates by subject and, within a subject, by raw bytes.
SortedBySubjectThenRaw(s) ==
    \A i, j \in DOMAIN s :
        i < j => \/ s[i].Subject < s[j].Subject
                 \/ s[i].Subject = s[j].Subject /\ s[i].Raw < s[j].Raw

Traces == {sgTrace, csTrace, rgTrace}

\* The places of a step in a trace.
Places(trace, step) == {i \in DOMAIN trace : trace[i] = step}

\* C15: an iteration whose request to the Log has returned has handed exactly
\* one API call to the writer, after the return of the request, whether the
\* request failed or not and whatever the verification found; so each getter
\* has written as many API calls as it has had requests return.
C15_OneAPICallPerRequest ==
    /\ sgAPICalls = sgIter - (IF sgPc = "fetching" THEN 1 ELSE 0)
    /\ rgAPICalls = rgIter - (IF rgPc = "fetching" THEN 1 ELSE 0)
    /\ \A trace \in Traces :
           "fetch" \in Range(trace) =>
               /\ Cardinality(Places(trace, "record")) = 1
               /\ \A i \in Places(trace, "fetch"),
                     j \in Places(trace, "record") : i < j

\* The STH getter has written two API calls, the second for a request that
\* failed.
C15_Witness ==
    /\ sgIter = 2
    /\ sgAPICalls = 2
    /\ sgPc = "wait"
    /\ sgGetErr # Nil
    /\ "record" \in Range(sgTrace)

\* The verifier of a task was invoked in the iteration of this trace.
VerifierInvoked(trace) == {"verify", "verifyNil"} \cap Range(trace) # {}

\* An iteration of this trace and place was ended normally, with the API call
\* recorded and the error of the request logged, and without verification.
EndedAfterFailedFetch(trace, pc) ==
    /\ ~VerifierInvoked(trace)
    /\ "record" \in Range(trace)
    /\ "logFetchError" \in Range(trace)
    /\ pc \in {"wait", "stopped"}
    /\ procAlive

\* C16: when the request of an iteration has failed, the verifier is not
\* invoked in that iteration, the API call is recorded, the error is logged
\* and the iteration ends normally.
C16_FailedFetchSkipsVerification ==
    /\ sgGetErr # Nil => EndedAfterFailedFetch(sgTrace, sgPc)
    /\ csAddErr # Nil => EndedAfterFailedFetch(csTrace, csPc)

\* C17: no iteration stops a task: the process never panics, and a task has
\* returned only if the context is cancelled.
C17_OnlyCancellationStopsTask ==
    /\ procAlive
    /\ csPc # "panicked"
    /\ (sgPc = "stopped" \/ csPc = "stopped" \/ rgPc = "stopped") => ctxDone

\* C18: once the context is cancelled, no task starts an iteration.
C18_NoIterationAfterCancel ==
    [][ctxDone =>
          (sgIter' = sgIter /\ csIter' = csIter /\ rgIter' = rgIter)]_vars

\* C19: schedule.Every, called with a cancelled context, returns without
\* calling f; otherwise its first step is a call of f, made before its ticker
\* exists; after that f is called once for each tick received and at no
\* other time, and not at all once Every has returned.
C19_EveryCallsFirstThenPerTick ==
    /\ [](csTicker => csIter >= 1)
    /\ [](csTick => csTicker)
    /\ [][(csPc = "start" /\ ctxDone) =>
              (csIter' = 0 /\ csPc' \in {"start", "stopped"})]_vars
    /\ [][(csPc = "start" /\ ~ctxDone /\ csPc' # "start") =>
              (csIter' = 1 /\ ~csTicker)]_vars
    /\ [][csIter' # csIter =>
              (/\ csIter' = csIter + 1
               /\ csPc = "start" \/ (csTick /\ ~csTick'))]_vars
    /\ [][(csTick /\ ~csTick') => csIter' = csIter + 1]_vars
    /\ [][csPc = "stopped" => (csIter' = csIter /\ csPc' = csPc)]_vars

\* Every has made its first call and one call for a tick, and has returned
\* after the context was cancelled.
C19_Witness ==
    /\ csIter = 2
    /\ csPc = "stopped"
    /\ ctxDone
    /\ csTicker

\* The rank of a step among fetching, recording, verifying and storing; 0 for
\* any other step.
StepRank(step) ==
    CASE step = "fetch" -> 1
      [] step = "record" -> 2
      [] step \in {"verify", "verifyNil"} -> 3
      [] step = "store" -> 4
      [] OTHER -> 0

HasWholeSecond(i) ==
    /\ Before(i.Start, i.End)
    /\ \/ i.Start.nsec = 0
       \/ Before(Time(i.Start.sec + 1, 0), i.End)

\* x is a whole second of [i.Start, i.End).
WholeSecondOf(x, i) ==
    /\ x.nsec = 0
    /\ ~Before(x, i.Start)
    /\ Before(x, i.End)

\* C21: RandomSecond never raises; it returns the zero instant exactly when
\* the interval is nil, End <= Start, or no whole-second instant lies in
\* [Start, End); otherwise it returns a whole-second instant x with
\* Start <= x < End (so the only boundary of a sub-second interval).
C21_RandomSecondWithinInterval ==
    /\ ivPc # "panicked"
    /\ ivPc = "done" =>
           /\ IsZero(ivResult) <=>
                  (ivInterval = Nil \/ ~HasWholeSecond(ivInterval))
           /\ ~IsZero(ivResult) => WholeSecondOf(ivResult, ivInterval)

\* RandomSecond never raises.
C21_NeverRaises == ivPc # "panicked"

\* A non-zero result is a whole second of the interval, and the zero instant
\* is what a nil, empty, inverted or boundary-free interval gives.
C21_ResultWithinInterval ==
    ivPc = "done" =>
        /\ (ivInterval = Nil \/ ~HasWholeSecond(ivInterval))
               => IsZero(ivResult)
        /\ ~IsZero(ivResult) => WholeSecondOf(ivResult, ivInterval)

\* The zero instant is returned only for an interval without whole seconds.
C21_ZeroOnlyWithoutWholeSecond ==
    (ivPc = "done" /\ IsZero(ivResult))
        => (ivInterval = Nil \/ ~HasWholeSecond(ivInterval))

\* ------------------------------------------------------------------------
\* Properties of the identifier generators' errors
\* ------------------------------------------------------------------------

\* GenerateSetID(roots) returned result, and failed exactly when
\* GenerateCertID fails for an element of roots; it returned an identifier
\* exactly when it did not fail.
SetIDFailsWithElement(roots, result) ==
    /\ result.err <=> (\E k \in DOMAIN roots : GenerateCertID(roots[k]).err)
    /\ result.err <=> (result.setID = Nil)

\* C22: GenerateCertID fails exactly for the nil certificate, and
\* GenerateSetID fails, returning no identifier, exactly when GenerateCertID
\* fails for some element of its input; it succeeds for every other input,
\* the empty list included.
C22_IDGenerationFailsOnlyOnNil ==
    /\ \A root \in Certs \cup {Nil} : GenerateCertID(root).err <=> (root = Nil)
    /\ rsIDsMade =>
           /\ SetIDFailsWithElement(rsOld, rsOldID)
           /\ SetIDFailsWithElement(rsNew, rsNewID)

\* The empty list has been given an identifier, and a list whose second
\* element is nil has been refused.
C22_Witness ==
    /\ rsIDsMade
    /\ rsOld = <<>>
    /\ ~rsOldID.err
    /\ rsOldID.setID # Nil
    /\ Len(rsNew) >= 2
    /\ rsNew[1] # Nil
    /\ rsNew[2] = Nil
    /\ rsNewID.err
    /\ rsNewID.setID = Nil

\* ------------------------------------------------------------------------
\* Properties of the LogClient
\* ------------------------------------------------------------------------

RequestFailed == {"GetError", "PostError", "NilResponseError"}

AfterBody == {"HTTPStatusError", "JSONParseError", "ResponseToStructError"}

\* d holds the timing of the request and, beyond it, what had been obtained
\* when the stage that err names failed.
HoldsWhatWasObtained(d, err) ==
    /\ ~IsZero(d.Timing.Start)
    /\ ~IsZero(d.Timing.End)
    /\ (err # Nil /\ err.type \in RequestFailed)
           => (d.Response = Nil /\ d.Body = Nil)
    /\ (err # Nil /\ err.type = "BodyReadError")
           => (d.Response # Nil /\ d.Body = Nil)
    /\ (err # Nil /\ err.type \in AfterBody)
           => (d.Response # Nil /\ d.Body = Bytes(d.Response.body))

C23_ReturnedHTTPDataHoldsWhatWasObtained ==
    (lcPc = "returned" /\ lcHTTPData # Nil)
        => HoldsWhatWasObtained(lcHTTPData, lcErr)

\* Only AddChain returns without an HTTPData, and only with an error that is
\* none of the typed ones.
C23_NilHTTPDataOnlyFromAddChain ==
    (lcPc = "returned" /\ lcHTTPData = Nil)
        => (lcMethod = "AddChain" /\ lcErr = Err("error") /\ ~lcValue)

\* ------------------------------------------------------------------------
\* Properties of the root store
\* ------------------------------------------------------------------------

\* Every row of the table is there once.
EachRowOnce(table) ==
    \A r \in BagToSet(wrDB[table]) : CopiesIn(r, wrDB[table]) = 1

\* The RootSetID of a set of certificates.
SetIDOf(contents) ==
    GenerateSetID(CHOOSE s \in SeqsOf(contents) : TRUE).setID

\* The certificates of the successful calls.
wrCerts == UNION {w.contents : w \in wrWritten}

\* The Roots and RootSets tables hold one row per distinct certificate and
\* one row per RootSetID and certificate of it, of the successful calls.
RootRowsAsWritten ==
    /\ EachRowOnce("Roots")
    /\ EachRowOnce("RootSets")
    /\ BagToSet(wrDB.Roots)
           = {[Id |-> GenerateCertID(c).id, DER |-> c.Raw] : c \in wrCerts}
    /\ BagToSet(wrDB.RootSets)
           = UNION {{[RootSetID |-> SetIDOf(w.contents),
                      RootID |-> GenerateCertID(c).id] : c \in w.contents} :
                    w \in wrWritten}

\* The distinct (log name, RootSetID, receivedAt) of the successful calls.
wrObserved ==
    {<<w.LogName, SetIDOf(w.contents), w.receivedAt>> : w \in wrWritten}

\* C24: after successful WriteRoots calls the database holds exactly one
\* Roots row per distinct certificate, one RootSets row per (RootSetID,
\* RootID) pair and one RootSetObservations row per distinct (log name,
\* RootSetID, receivedAt); duplicates in a call are stored once, and the
\* same certificates in another order add only an observation row.
C24_OneRowPerWrittenFact ==
    wrFailed = 0 =>
        /\ RootRowsAsWritten
        /\ EachRowOnce("RootSetObservations")
        /\ Cardinality(BagToSet(wrDB.RootSetObservations))
               = Cardinality(wrObserved)

\* What C24 says of Roots and RootSets, and of the primary keys.
C24_RootsAndRootSetsAsWritten ==
    /\ EachRowOnce("Roots")
    /\ EachRowOnce("RootSets")
    /\ EachRowOnce("RootSetObservations")
    /\ wrFailed = 0 => RootRowsAsWritten

\* One RootSetObservations row per distinct (log name, RootSetID, second of
\* receivedAt).
C24_OneObservationPerSecond ==
    wrFailed = 0 =>
        BagToSet(wrDB.RootSetObservations)
            = {[LogName |-> w.LogName, RootSetID |-> SetIDOf(w.contents),
                ReceivedAt |-> DATETIME(w.receivedAt)] : w \in wrWritten}

\* ------------------------------------------------------------------------
\* Properties of the collector
\* ------------------------------------------------------------------------

\* Run is past the point where it starts its tasks, or has returned.
coPastStart == coPc \in {"wait", "returned"}

coNoneStarted == \A t \in CollectorTasks : coTask[t] = "notStarted"

coStarted(t) == coTask[t] # "notStarted"

\* Run returns nil only after every task it started has returned.
coNilOnlyAfterTasks ==
    (coPc = "returned" /\ coErr = Nil)
        => \A t \in CollectorTasks : coTask[t] # "running"

\* Past the start, each getter is started exactly if its period is positive.
coStartedByPeriod ==
    /\ coStarted("sthgetter") <=> coCfg.STHGetPeriod > 0
    /\ coStarted("rootsgetter") <=> coCfg.RootsGetPeriod > 0

\* C25 as stated: Run returns an error without starting any task when the
\* Config or its Log is nil; otherwise it starts the STH getter iff
\* STHGetPeriod > 0 and the roots getter iff RootsGetPeriod > 0, and returns
\* nil only after every started task has returned.
C25_Original ==
    /\ (coCfg = Nil \/ coCfg.Log = Nil)
           => (coNoneStarted
               /\ (coPc = "returned" => coErr # Nil))
    /\ (coCfg # Nil /\ coCfg.Log # Nil /\ coPastStart) => coStartedByPeriod
    /\ coNilOnlyAfterTasks

\* C25, amended: Run returns an error without starting any task when the
\* Config or its Log is nil or no signature verifier can be made for the
\* Log's public key; otherwise it starts the STH getter iff STHGetPeriod > 0
\* and the roots getter iff RootsGetPeriod > 0, and returns nil only after
\* every started task has returned.
C25_RunStartsEnabledTasks ==
    /\ RunError(coCfg) # Nil
           => (coNoneStarted
               /\ (coPc = "returned" => coErr # Nil))
    /\ (RunError(coCfg) = Nil /\ coPastStart) => coStartedByPeriod
    /\ coNilOnlyAfterTasks

\* Both getters have run at the same time, and Run has returned nil after
\* both returned.
C25_Witness ==
    /\ coPc = "returned"
    /\ coErr = Nil
    /\ \A t \in CollectorTasks : coTask[t] = "returned"

\* Both getters are running at once while Run waits.
C25_Concurrent ==
    /\ coPc = "wait"
    /\ \A t \in CollectorTasks : coTask[t] = "running"

\* ------------------------------------------------------------------------
\* Properties of the roots getter's storing
\* ------------------------------------------------------------------------

\* The roots getter's current iteration called WriteRoots.
rgWriteRootsCalled == "store" \in Range(rgTrace)

\* The current iteration's get-roots request and the recording of its API
\* call both succeeded.
rgFetchSucceeded ==
    /\ "fetch" \in Range(rgTrace)
    /\ rgGetErr = Nil
    /\ "logRecordError" \notin Range(rgTrace)

\* C26: the roots getter stores an observation only for an iteration whose
\* fetch succeeded; when the fetch fails, or recording the API call fails,
\* WriteRoots is not called.
C26_StoreOnlyAfterSuccessfulFetch == rgWriteRootsCalled => rgFetchSucceeded

\* ------------------------------------------------------------------------
\* Properties of the roots analyzer on a closed channel
\* ------------------------------------------------------------------------

\* The received value the k-th ReadRoots call, or report, was made for came
\* from the closed channel.
raAfterClose(call) == raObserved[call.at] = ""

\* C27: the roots analyzer never calls ReadRoots with the empty RootSetID,
\* and the closing of the watch channel produces no report and no further
\* ReadRoots call.
C27_ClosedChannelIsQuiet ==
    /\ \A k \in DOMAIN raReads :
           /\ raReads[k].id # ""
           /\ ~raAfterClose(raReads[k])
    /\ \A k \in DOMAIN raReports : ~raAfterClose(raReports[k])

\* ------------------------------------------------------------------------
\* Properties of the timestamp conversion
\* ------------------------------------------------------------------------

\* The instant an STH's timestamp names: that many milliseconds after the
\* epoch, in nanoseconds.
TrueInstant(ts) == ts * Millisecond

\* C28: for every unsigned 64-bit STH timestamp the conversion from
\* milliseconds to nanoseconds does not wrap, so an STH whose instant is at
\* or after receivedAt - MMD is never reported as too old and one whose
\* instant is before it always is.
C28_ConversionDoesNotWrap ==
    sgChecked =>
        /\ MsToInstant(sgSTH.Timestamp) = TrueInstant(sgSTH.Timestamp)
        /\ ("OldTimestampError" \in Range(sgErrs)) <=>
               (TrueInstant(sgSTH.Timestamp) < sgReceivedAt - mmd)

\* For the timestamps whose nanoseconds fit the signed word, the conversion
\* is exact.
C28_ExactWithinRange ==
    (sgChecked /\ TrueInstant(sgSTH.Timestamp) < Int64Top) =>
        /\ MsToInstant(sgSTH.Timestamp) = TrueInstant(sgSTH.Timestamp)
        /\ ("OldTimestampError" \in Range(sgErrs)) <=>
               (TrueInstant(sgSTH.Timestamp) < sgReceivedAt - mmd)

\* ------------------------------------------------------------------------
\* Properties of the tasks' iterations
\* ------------------------------------------------------------------------

\* The number of iterations of the STH getter, and of the roots getter, that
\* have started and not returned: every iteration that returns has handed
\* one API call to the writer.
sgExecuting == sgIter - sgAPICalls

rgExecuting == rgIter - rgAPICalls

\* C29: at most one iteration of a task is executing at any time, and a new
\* iteration starts only after the previous one has returned.
C29_OneIterationAtATime ==
    /\ [](sgExecuting = IF sgPc = "fetching" THEN 1 ELSE 0)
    /\ [](rgExecuting = IF rgPc = "fetching" THEN 1 ELSE 0)
    /\ [][sgIter' # sgIter => (sgPc # "fetching" /\ sgIter' = sgIter + 1)]_vars
    /\ [][rgIter' # rgIter => (rgPc # "fetching" /\ rgIter' = rgIter + 1)]_vars
    /\ [][csIter' # csIter =>
              (csPc \notin {"posting", "panicked"} /\ csIter' = csIter + 1)]_vars

\* The STH getter's second iteration is executing, the first having
\* returned.
C29_Witness ==
    /\ sgPc = "fetching"
    /\ sgIter = 2
    /\ sgAPICalls = 1
    /\ sgExecuting = 1

\* ------------------------------------------------------------------------
\* Properties of shutdown
\* ------------------------------------------------------------------------

\* Every task that was started has returned; a task whose iteration has
\* panicked has an iteration that does not return.
TasksReturned ==
    /\ sgPc \in {"off", "stopped"}
    /\ csPc \in {"off", "stopped", "panicked"}
    /\ rgPc \in {"off", "stopped"}
    /\ raPc \in {"off", "returned"}

\* collector.Run has returned, and none of its tasks is running.
CollectorReturned ==
    /\ coPc \in {"off", "returned"}
    /\ \A t \in CollectorTasks : coTask[t] # "running"

\* C30: after cancellation every task eventually returns, provided any
\* iteration in progress returns; therefore collector.Run returns.
C30_CancellationStopsEverything ==
    ctxDone ~> (TasksReturned /\ CollectorReturned)

\* The STH getter has returned after the cancellation, leaving a tick in its
\* ticker's channel.
C30_Witness ==
    /\ ctxDone
    /\ sgPc = "stopped"
    /\ sgIter >= 1
    /\ sgTick

\* collector.Run has returned after the cancellation stopped both of its
\* tasks.
C30_WitnessCollector ==
    /\ ctxDone
    /\ coPc = "returned"
    /\ coWg = 0
    /\ coTask = [t \in CollectorTasks |-> "returned"]

====
